---------------------------- MODULE Spec2Model ----------------------------
(***************************************************************************)
(* A model of the Mixminion server core: lib/mixminion/ServerMain.py (the *)
(* key ring, the incoming queue, the mix pool, the outgoing queue and the  *)
(* server loop) and lib/mixminion/Modules.py (the module manager and its   *)
(* delivery queues).                                                       *)
(*                                                                         *)
(* Thirteen specifications share the module's variables:                        *)
(*   SpecKeys  the ServerKeyring's live-key lookup over bounded schedules; *)
(*   SpecKeyStore    createKeys / removeDeadKeys on the key directory;     *)
(*   SpecRemoveKeys  the server-DELKEYS command (removeKeys);              *)
(*   SpecMM    the ModuleManager under any sequence of register / enable / *)
(*             disable / queueMessage calls;                               *)
(*   SpecLoad  the ModuleManager while modules are loaded and configured;  *)
(*   Spec      MixminionServer.run, one action per step of the loop;       *)
(*   SpecDeliver  the outgoing queue, a whole _deliverMessages call per    *)
(*             action;                                                     *)
(*   SpecExit  the queues of the exit modules, in the same way;            *)
(*   SpecEscape  _escapeMessage over bounded byte strings;                 *)
(*   SpecClean  the clean cadence of run(), up to the first clean step;    *)
(*   SpecSteps  the server loop with the two hand-overs call by call;      *)
(*   SpecBoot  MixminionServer.__init__ on an empty key directory;         *)
(*   SpecNames  one createKeys call on any set of key numbers.             *)
(* A specification leaves the variables of the others unchanged.           *)
(***************************************************************************)
EXTENDS Integers, Sequences, FiniteSets, TLC

VARIABLES
    \* ---- ServerKeyring (ServerMain.py 44-304)
    keyIntervals,     \* sorted list of <<valid_after, valid_until, name>>
    liveKey,          \* the memoised live key, or None
    nextKeyRotation,  \* valid_until of the memoised key, 0 when none
    now,              \* time.time()
    lookup,           \* the last _getLiveKey call: [when, ret]
    keyStore,         \* the keysets under keys/key_NNNN: <<va, vu, name>>
    files,            \* which of the identity key and DH files exist
    keyOp,            \* the last key-directory operation and what it did
    \* ---- ModuleManager (Modules.py 160-327)
    modules,          \* list of the registered modules (by name)
    syntax,           \* the configuration sections the modules define
    nameToModule,     \* the names that map to a module
    enabled,          \* the names of the enabled modules
    typeToModule,     \* exit type -> name of the module it is delivered to
    queues,           \* the names that have a delivery queue object
    deliverDir,       \* name -> entries stored under work/queues/deliver/<name>
    processed,        \* the messages handed to some module's processMessage
    dispatch,         \* the last queueMessage call and what it did
    lastEnable,       \* exit type -> the module enabled last for it
    mmLog,            \* what the last ModuleManager call logged or raised
    \* ---- MixminionServer (ServerMain.py 306-545)
    pc,               \* where run() is
    untilMix,         \* nextMix - time.time(), 0 once the mix is due
    incomingQueue,    \* entries under work/queues/incoming
    mixPool,          \* entries under work/queues/mix: [h, obj, age]
    outgoingQueue,    \* entries under work/queues/outgoing
    batch,            \* what is left of the list being delivered or mixed
    handles,          \* mix(): the list queue.getBatch() returned
    unsynced,         \* packets in the hash log and not yet synced
    arrived,          \* number of packets received so far
    serverKeys,       \* keysets of self.packetHandler and of the TLS context
    routed,           \* what mix() has routed: [id, age, synced, to]
    excCount,         \* packet -> times a module's processMessage raised
    faulted,          \* packets whose enqueue raised inside mix()
    \* ---- a delivery queue's _deliverMessages, followed in SpecDeliver
    msgList,          \* the list the last _deliverMessages call was given
    calls,            \* the calls it made to the transport or its module
    \* ---- the message-body escaper (Modules.py 573-627)
    escaped,          \* the last _escapeMessage call: its arguments and result
    \* ---- run()'s clean cadence (ServerMain.py 505, 534-541), in SpecClean
    nextShred,        \* the time after which the queues are cleaned next
    cleaned           \* the queues the last clean step ran cleanQueue on

keyVars == <<keyIntervals, liveKey, nextKeyRotation, now, lookup, keyStore,
             files, keyOp>>

mmVars == <<modules, syntax, nameToModule, enabled, typeToModule, queues,
            deliverDir, processed, dispatch, lastEnable, mmLog>>

dlvVars == <<msgList, calls>>

shredVars == <<nextShred, cleaned>>

srvVars == <<pc, untilMix, incomingQueue, mixPool, outgoingQueue, batch,
             unsynced, arrived, serverKeys, routed, excCount, faulted, dlvVars, escaped,
             handles, shredVars>>

vars == <<keyVars, mmVars, srvVars>>

(***************************************************************************)
(* Python values.  None orders before every number (Python 2), which the   *)
(* tuple comparison of bisect relies on; times and names are >= 0.         *)
(***************************************************************************)
None == -1

\* The key value returned when the key ring holds no key.
NoKey == <<>>

\* cmp of two 3-tuples of numbers-or-None, as Python 2 orders tuples.
TupleLess(a, b) ==
    \/ a[1] < b[1]
    \/ a[1] = b[1] /\ a[2] < b[2]
    \/ a[1] = b[1] /\ a[2] = b[2] /\ a[3] < b[3]

\* a[i] for a Python list a and an index i that may be negative.
PyIndex(a, i) == IF i < 0 THEN a[Len(a) + i + 1] ELSE a[i + 1]

(***************************************************************************)
(* bisect.bisect(a, x): the insertion point to the right of every entry    *)
(* that is <= x.                                                           *)
(***************************************************************************)
RECURSIVE bisectLoop(_, _, _, _)
bisectLoop(a, x, lo, hi) ==
    IF lo < hi
    THEN LET mid == (lo + hi) \div 2
         IN  IF TupleLess(x, PyIndex(a, mid))
             THEN bisectLoop(a, x, lo, mid)
             ELSE bisectLoop(a, x, mid + 1, hi)
    ELSE lo

bisect(a, x) == bisectLoop(a, x, 0, Len(a))

\* list.sort() of a set of tuples: the sorted list.
RECURSIVE sortTuples(_)
sortTuples(S) ==
    IF S = {} THEN <<>>
    ELSE LET m == CHOOSE e \in S : \A f \in S : f = e \/ TupleLess(e, f)
         IN  <<m>> \o sortTuples(S \ {m})

(***************************************************************************)
(* ServerKeyring._getLiveKey(when).  when = None asks for the key live at  *)
(* time.time() (clock) and goes through the memoised pair; the result is   *)
(* the returned key with the fields the call leaves behind.                *)
(***************************************************************************)
\* A variant of _getLiveKey that searches the list at every call.
_getLiveKeyNoCache(ki, lk, nkr, when, clock) ==
    IF ki = <<>>
    THEN [ret |-> NoKey, liveKey |-> NoKey, nextKeyRotation |-> 0]
    ELSE LET w == IF when = None THEN clock ELSE when
             k == PyIndex(ki, bisect(ki, <<w, None, None>>) - 1)
         IN  IF when = None
             THEN [ret |-> k, liveKey |-> k, nextKeyRotation |-> k[2]]
             ELSE [ret |-> k, liveKey |-> lk, nextKeyRotation |-> nkr]

_getLiveKey(ki, lk, nkr, when, clock) ==
    IF ki = <<>>
    THEN [ret |-> NoKey, liveKey |-> NoKey, nextKeyRotation |-> 0]
    ELSE LET w == IF when = None THEN clock ELSE when
         IN  IF when = None /\ w < nkr
             THEN [ret |-> lk, liveKey |-> lk, nextKeyRotation |-> nkr]
             ELSE LET idx == bisect(ki, <<w, None, None>>) - 1
                      k == PyIndex(ki, idx)
                  IN  IF when = None
                      THEN [ret |-> k, liveKey |-> k, nextKeyRotation |-> k[2]]
                      ELSE [ret |-> k, liveKey |-> lk, nextKeyRotation |-> nkr]

\* ServerKeyring.checkKeys, its last two statements: the memoised pair is
\* reset and looked up again.
checkKeys(ki, clock) == _getLiveKey(ki, NoKey, 0, None, clock)

(***************************************************************************)
(* Modules.py: the delivery modules.  A module is known by its name; the   *)
(* three built-in modules are registered by ModuleManager.__init__, and    *)
(* EXT stands for a module loaded by loadExtModule, which claims the MBOX  *)
(* exit type and one of its own, and DUP for a loaded module whose         *)
(* configuration syntax defines the section the MBOX module defines.       *)
(***************************************************************************)
DELIVER_OK == 1
DELIVER_FAIL_RETRY == 2
DELIVER_FAIL_NORETRY == 3

DROP_TYPE == 0
SMTP_TYPE == 256
MBOX_TYPE == 257
\* An exit type of a loaded module (the numeric space is open).
EXT_TYPE == 258

BuiltinModules == <<"MBOX", "DROP", "SMTP_MIX2">>
ExtModules == {"EXT"}
DupModules == {"DUP"}
ModuleNames == {"MBOX", "DROP", "SMTP_MIX2"} \cup ExtModules \cup DupModules
ExitTypes == {DROP_TYPE, SMTP_TYPE, MBOX_TYPE, EXT_TYPE}

getExitTypes(m) ==
    CASE m = "MBOX" -> {MBOX_TYPE}
      [] m = "DROP" -> {DROP_TYPE}
      [] m = "SMTP_MIX2" -> {SMTP_TYPE}
      [] m = "DUP" -> {EXT_TYPE}
      [] OTHER -> {MBOX_TYPE, EXT_TYPE}

getConfigSyntax(m) ==
    CASE m = "MBOX" -> {"Delivery/MBOX"}
      [] m = "DROP" -> {}
      [] m = "SMTP_MIX2" -> {"Delivery/SMTP-Via-Mixmaster"}
      [] m = "DUP" -> {"Delivery/MBOX", "Delivery/DUP"}
      [] OTHER -> {"Delivery/EXT"}

\* createDeliveryQueue: the class of the module's queue.
createDeliveryQueue(m) ==
    CASE m = "DROP" -> "ImmediateDeliveryQueue"
      [] m = "SMTP_MIX2" -> "_MixmasterSMTPModuleDeliveryQueue"
      [] OTHER -> "SimpleModuleDeliveryQueue"

(***************************************************************************)
(* Messages and tags.  A message is [id, body]: id names the packet it     *)
(* came in, body is what the payload decoder makes of it.  NoTag is        *)
(* Python's None in the place of a tag; no tag string equals it.           *)
(***************************************************************************)
NoTag == "None"
ErrTag == "err"
Tags == {"tagA"}
Bodies == {"fwd", "enc", "bad"}
Addresses == {"alice"}

(***************************************************************************)
(* BuildMessage.decodePayload(message, tag): the decoded payload of a      *)
(* forward message, None for a message that is still encrypted, MixError   *)
(* for a corrupt one.                                                      *)
(***************************************************************************)
decodePayload(message, tag) ==
    CASE message.body = "fwd" ->
             [out |-> "payload", payload |-> [message EXCEPT !.body = "clear"]]
      [] message.body = "enc" -> [out |-> "None", payload |-> message]
      [] OTHER -> [out |-> "MixError", payload |-> message]

(***************************************************************************)
(* Queue.DeliveryQueue, the durable queue below every delivery queue.  An  *)
(* entry is [h, addr, msg, retries, st]: st is "ready" (to be handed out   *)
(* by the next sendReadyMessages), "pending" (handed out, no outcome yet)  *)
(* or "waiting" (failed, rescheduled).                                     *)
(***************************************************************************)
MaxRetries == 1

\* A handle no entry of the queue uses.
newHandle(q) == CHOOSE h \in 1 .. Cardinality(q) + 1 : \A e \in q : e.h # h

DQ_queueDeliveryMessage(q, addr, msg) ==
    q \cup {[h |-> newHandle(q), addr |-> addr, msg |-> msg,
             retries |-> 0, st |-> "ready"]}

DQ_deliverySucceeded(q, h) == {e \in q : e.h # h}

DQ_deliveryFailed(q, h, retriable) ==
    {IF e.h = h THEN [e EXCEPT !.retries = @ + 1, !.st = "waiting"] ELSE e :
        e \in {f \in q : f.h # h \/ (retriable /\ f.retries < MaxRetries)}}

(***************************************************************************)
(* ModuleManager.  The manager's maps are passed as a record mm with the   *)
(* fields typeToModule, queues, enabled.                                   *)
(***************************************************************************)
mmNow == [typeToModule |-> typeToModule, queues |-> queues, enabled |-> enabled]



\* A variant of enableModule that keeps the module a type already maps to.
enableModuleKeepsFirst(mm, m) ==
    [typeToModule |->
         [t \in DOMAIN mm.typeToModule \cup getExitTypes(m) |->
             IF t \in DOMAIN mm.typeToModule THEN mm.typeToModule[t] ELSE m],
     queues |-> mm.queues \cup {m},
     enabled |-> mm.enabled \cup {m}]

enableModule(mm, m) ==
    [typeToModule |->
         [t \in DOMAIN mm.typeToModule \cup getExitTypes(m) |->
             IF t \in getExitTypes(m) THEN m ELSE mm.typeToModule[t]],
     queues |-> mm.queues \cup {m},
     enabled |-> mm.enabled \cup {m}]

\* A variant of disableModule that leaves the module's exit types mapped.
disableModuleKeepsTypes(mm, m) ==
    [typeToModule |-> mm.typeToModule,
     queues |-> mm.queues \ {m},
     enabled |-> mm.enabled \ {m}]

disableModule(mm, m) ==
    [typeToModule |->
         [t \in {u \in DOMAIN mm.typeToModule :
                    ~(u \in getExitTypes(m) /\ mm.typeToModule[u] = m)} |->
             mm.typeToModule[t]],
     queues |-> mm.queues \ {m},
     enabled |-> mm.enabled \ {m}]

\* A variant of enableModule's warning that does not look at the name of
\* the module that holds the type.
enableWarningsAnyHolder(mm, m) ==
    {<<"warn", t>> : t \in getExitTypes(m) \cap DOMAIN mm.typeToModule}

\* enableModule's warnings, "More than one module is enabled for type %x":
\* one for each type that another module already holds.
enableWarnings(mm, m) ==
    {<<"warn", t>> :
        t \in {u \in getExitTypes(m) \cap DOMAIN mm.typeToModule :
                  mm.typeToModule[u] # m}}

enableWarns(mm, m) == enableWarnings(mm, m) # {}

\* queueMessage's error, "Unable to handle message with unknown type %s".
queueMessageErrors(t2m, exitType) ==
    IF exitType \in DOMAIN t2m THEN {} ELSE {<<"error", exitType>>}

(***************************************************************************)
(* ModuleManager.queueMessage, up to its call of queueDeliveryMessage:     *)
(* the queue and the (address, message) pair it hands over, NoCall for an  *)
(* exit type no module holds.                                              *)
(***************************************************************************)
NoCall == [to |-> "", addr |-> <<>>, msg |-> <<>>]

\* A variant of queueMessage that hands a message of an unknown type to the
\* DROP module.
queueMessageDefaultsToDrop(t2m, message, tag, exitType, address) ==
    LET mod == IF exitType \in DOMAIN t2m THEN t2m[exitType] ELSE "DROP"
        d == decodePayload(message, tag)
    IN  CASE d.out = "MixError" ->
                 [to |-> mod, addr |-> <<exitType, address, ErrTag>>,
                  msg |-> message]
          [] d.out = "None" ->
                 [to |-> mod, addr |-> <<exitType, address, tag>>,
                  msg |-> message]
          [] OTHER ->
                 [to |-> mod, addr |-> <<exitType, address, NoTag>>,
                  msg |-> d.payload]

\* A variant of queueMessage that keeps the original tag of a corrupt message.
queueMessageKeepsTag(t2m, message, tag, exitType, address) ==
    IF exitType \notin DOMAIN t2m
    THEN NoCall
    ELSE LET mod == t2m[exitType]
             d == decodePayload(message, tag)
         IN  IF d.out = "payload"
             THEN [to |-> mod, addr |-> <<exitType, address, NoTag>>,
                   msg |-> d.payload]
             ELSE [to |-> mod, addr |-> <<exitType, address, tag>>,
                   msg |-> message]

queueMessage(t2m, message, tag, exitType, address) ==
    IF exitType \notin DOMAIN t2m
    THEN NoCall
    ELSE LET mod == t2m[exitType]
             d == decodePayload(message, tag)
         IN  CASE d.out = "MixError" ->
                      [to |-> mod, addr |-> <<exitType, address, ErrTag>>,
                       msg |-> message]
               [] d.out = "None" ->
                      [to |-> mod, addr |-> <<exitType, address, tag>>,
                       msg |-> message]
               [] OTHER ->
                      [to |-> mod, addr |-> <<exitType, address, NoTag>>,
                       msg |-> d.payload]

\* A variant of registerModule that lets the later module redefine a section.
registerModuleOverrides(mods, syn, names, m) ==
    [modules |-> Append(mods, m), syntax |-> syn \cup getConfigSyntax(m),
     nameToModule |-> names \cup {m}, raised |-> FALSE]

\* ModuleManager.registerModule: the list, the syntax and the name map it
\* leaves, and whether it raised ConfigError.
registerModule(mods, syn, names, m) ==
    IF getConfigSyntax(m) \cap syn # {}
    THEN [modules |-> Append(mods, m), syntax |-> syn, nameToModule |-> names,
          raised |-> TRUE]
    ELSE [modules |-> Append(mods, m), syntax |-> syn \cup getConfigSyntax(m),
          nameToModule |-> names \cup {m}, raised |-> FALSE]

Range(f) == {f[x] : x \in DOMAIN f}

\* No queueMessage call since the last change of the manager.
NoDispatch == [outcome |-> "none"]

\* No _escapeMessage call yet.
NoEscape == [op |-> "none"]

\* The state of the ModuleManager part while the key ring is exercised.
MMIdle ==
    /\ modules = <<>>
    /\ syntax = {}
    /\ nameToModule = {}
    /\ enabled = {}
    /\ typeToModule = <<>>
    /\ queues = {}
    /\ deliverDir = [m \in ModuleNames |-> {}]
    /\ processed = {}
    /\ dispatch = NoDispatch
    /\ lastEnable = <<>>
    /\ mmLog = {}

\* The state of the server part while another part is exercised.
SrvIdle ==
    /\ pc = "idle"
    /\ untilMix = 0
    /\ incomingQueue = {}
    /\ mixPool = {}
    /\ outgoingQueue = {}
    /\ batch = {}
    /\ unsynced = {}
    /\ arrived = 0
    /\ serverKeys = <<>>
    /\ routed = {}
    /\ excCount = <<>>
    /\ faulted = {}
    /\ msgList = <<>>
    /\ calls = <<>>
    /\ escaped = NoEscape
    /\ handles = {}
    /\ nextShred = 0
    /\ cleaned = <<>>

(***************************************************************************)
(* Bounds of the key-ring model.                                           *)
(***************************************************************************)
MaxKeys == 2
MaxT == 4

Times == 0 .. MaxT
KeyNames == 1 .. MaxKeys

\* A keyset's interval: valid_after < valid_until.
Intervals == {<<va, vu>> \in Times \X Times : va < vu}

\* The schedules a key directory can hold: keysets of distinct names.
KeySets ==
    UNION {{{<<f[n][1], f[n][2], n>> : n \in N} : f \in [N -> Intervals]} :
              N \in SUBSET KeyNames}

Schedules == {sortTuples(S) : S \in KeySets}

NoLookup == [when |-> None, ret |-> NoKey]

\* No key-directory operation yet.
NoOp == [op |-> "none"]

InitKeys ==
    /\ keyIntervals \in Schedules
    /\ now \in Times
    /\ LET r == checkKeys(keyIntervals, now)
       IN  liveKey = r.liveKey /\ nextKeyRotation = r.nextKeyRotation
    /\ lookup = NoLookup
    /\ keyStore = Range(keyIntervals)
    /\ files = {}
    /\ keyOp = NoOp
    /\ MMIdle
    /\ SrvIdle

\* _getLiveKey(when) for an explicit time.
GetLiveKeyAt(when) ==
    /\ LET r == _getLiveKey(keyIntervals, liveKey, nextKeyRotation, when, now)
       IN  /\ liveKey' = r.liveKey
           /\ nextKeyRotation' = r.nextKeyRotation
           /\ lookup' = [when |-> when, ret |-> r.ret]
    /\ UNCHANGED <<keyIntervals, now, keyStore, files, keyOp, mmVars, srvVars>>

\* _getLiveKey(): the key live at the current time.
GetLiveKeyNow ==
    /\ LET r == _getLiveKey(keyIntervals, liveKey, nextKeyRotation, None, now)
       IN  /\ liveKey' = r.liveKey
           /\ nextKeyRotation' = r.nextKeyRotation
           /\ lookup' = [when |-> now, ret |-> r.ret]
    /\ UNCHANGED <<keyIntervals, now, keyStore, files, keyOp, mmVars, srvVars>>

\* The clock advances.
ClockTick ==
    /\ now < MaxT
    /\ now' = now + 1
    /\ UNCHANGED <<keyIntervals, liveKey, nextKeyRotation, lookup, keyStore,
                   files, keyOp, mmVars, srvVars>>

NextKeys ==
    \/ \E when \in Times : GetLiveKeyAt(when)
    \/ GetLiveKeyNow
    \/ ClockTick

SpecKeys == InitKeys /\ [][NextKeys]_vars

(***************************************************************************)
(* The key directory: createKeys, removeDeadKeys and the remove-keys       *)
(* command.  Times are seconds; the keysets on disk are keyStore, and      *)
(* every operation ends with checkKeys, which reads them back.             *)
(***************************************************************************)
\* Common.previousMidnight(t): the start of the day (GMT) that holds t.
Day == 86400

previousMidnight(t) == t - (t % Day)

\* sys.maxint
maxint == 2147483647

\* config['Server']['PublicKeyLifetime'][2] and ['PublicKeySloppiness'][2]
PublicKeyLifetime == Day

keySloppiness == 600

\* Bounds: the half days the clock of the key directory runs for, and the
\* keys one createKeys call is asked for.
MaxHalfDays == 3
MaxNew == 2

HalfDay == Day \div 2

StoreTimes == {h * HalfDay : h \in 0 .. MaxHalfDays}

\* The key directories a server may start with: any intervals, also
\* overlapping and nested ones, under distinct names.
StoreIntervals == {<<va, vu>> \in StoreTimes \X StoreTimes : va < vu}

KeyStores ==
    UNION {{{<<f[n][1], f[n][2], n>> : n \in N} : f \in [N -> StoreIntervals]} :
              N \in SUBSET KeyNames}

\* checkKeys, the scan: the sorted interval list and the key range.
scanKeys(store) == sortTuples(store)

\* A variant of checkKeys that takes the number of keysets for the last key.
keyRangeCountsKeys(store) ==
    IF store = {} THEN <<maxint, 0>>
    ELSE <<CHOOSE n \in {k[3] : k \in store} : \A k \in store : n <= k[3],
           Cardinality(store)>>

keyRange(store) ==
    IF store = {} THEN <<maxint, 0>>
    ELSE <<CHOOSE n \in {k[3] : k \in store} : \A k \in store : n <= k[3],
           CHOOSE n \in {k[3] : k \in store} : \A k \in store : k[3] <= n>>

\* generateServerDescriptorAndKeys(keyname, validAt): the keyset it writes,
\* valid from validAt for PublicKeyLifetime.
generateServerDescriptorAndKeys(keynum, validAt) ==
    <<validAt, validAt + PublicKeyLifetime, keynum>>

\* createKeys, the loop: the keysets it generates, in order.
RECURSIVE createLoop(_, _, _, _)
createLoop(num, startAt, firstKey, lastKey) ==
    IF num = 0 THEN <<>>
    ELSE LET fk == CASE firstKey = maxint -> 1
                     [] firstKey > 1 -> firstKey - 1
                     [] OTHER -> firstKey
             lk == CASE firstKey = maxint -> 1
                     [] firstKey > 1 -> lastKey
                     [] OTHER -> lastKey + 1
             keynum == IF firstKey # maxint /\ firstKey > 1 THEN fk ELSE lk
             nextStart == startAt + PublicKeyLifetime
         IN  <<generateServerDescriptorAndKeys(keynum, startAt)>>
                 \o createLoop(num - 1, nextStart, fk, lk)

\* A variant of createKeys that starts the first key where the last one
\* ends, without the minute and without going back to midnight.
createKeysFromEnd(ki, range, num, startAt, clock) ==
    createLoop(num,
               CASE startAt # None -> startAt
                 [] ki # <<>> -> PyIndex(ki, -1)[2]
                 [] OTHER -> clock,
               range[1], range[2])

\* ServerKeyring.createKeys(num, startAt), before its checkKeys.
createKeys(ki, range, num, startAt, clock) ==
    createLoop(num,
               previousMidnight(
                   CASE startAt # None -> startAt
                     [] ki # <<>> -> PyIndex(ki, -1)[2] + 60
                     [] OTHER -> clock + 60),
               range[1], range[2])

\* zip(a, b) of two lists, as far as the shorter one goes.
zip(a, b) ==
    [i \in 1 .. (IF Len(a) < Len(b) THEN Len(a) ELSE Len(b)) |-> <<a[i], b[i]>>]

\* removeDeadKeys: dirs, by keyset name.
deadDirs(ki, cutoff) ==
    LET dead == SelectSeq(ki, LAMBDA k : k[2] < cutoff)
    IN  [i \in 1 .. Len(dead) |-> dead[i][3]]

\* A variant of removeDeadKeys that removes the keyset its log line names.
removedNamesAsLogged(ki, cutoff) ==
    {p[2][3] : p \in Range(zip(deadDirs(ki, cutoff), ki))}

\* removeDeadKeys: the names of the directories whose files are deleted and
\* which are removed; dirname comes from dirs alone.
removedNames(ki, cutoff) ==
    {p[1] : p \in Range(zip(deadDirs(ki, cutoff), ki))}

\* removeDeadKeys: the keysets its log lines name.
loggedKeys(ki, cutoff) ==
    {p[2] : p \in Range(zip(deadDirs(ki, cutoff), ki))}

\* A variant of removeDeadKeys that zips dirs with the expired keysets alone.
removalPairsOfExpired(ki, cutoff) ==
    Range(zip(deadDirs(ki, cutoff), SelectSeq(ki, LAMBDA k : k[2] < cutoff)))

\* removeDeadKeys: the (dirname, (va, vu, name)) pairs its loop walks.
removalPairs(ki, cutoff) == Range(zip(deadDirs(ki, cutoff), ki))

\* removeKeys: "This is impossibly far in the future": 1L << 36, a time
\* after every time of the model; it is held as the largest integer.
FarFuture == maxint

\* The files removeIdentityKey deals with; "dhfile" is the relative path
\* its os.path.exists call tests.
IdentityFiles == {"identity.key", "dhparam", "dhfile"}

\* ServerKeyring.removeIdentityKey: the files it leaves.
removeIdentityKey(fs) ==
    IF "dhfile" \in fs
    THEN fs \ {"identity.key", "dhparam"}
    ELSE fs \ {"identity.key"}

InitKeyStore ==
    /\ keyStore \in KeyStores
    /\ keyIntervals = scanKeys(keyStore)
    /\ now = 0
    /\ LET r == checkKeys(keyIntervals, now)
       IN  liveKey = r.liveKey /\ nextKeyRotation = r.nextKeyRotation
    /\ lookup = NoLookup
    /\ files = {}
    /\ keyOp = NoOp
    /\ MMIdle
    /\ SrvIdle

\* checkKeys at the end of an operation that leaves store on disk.
Rescan(store) ==
    /\ keyStore' = store
    /\ keyIntervals' = scanKeys(store)
    /\ LET r == checkKeys(keyIntervals', now)
       IN  liveKey' = r.liveKey /\ nextKeyRotation' = r.nextKeyRotation

\* ServerKeyring.createKeys(num): the identity key is made if there is none.
CreateKeys(num) ==
    /\ Cardinality(keyStore) < MaxKeys
    /\ LET new == createKeys(keyIntervals, keyRange(keyStore), num, None, now)
       IN  /\ Rescan(keyStore \cup Range(new))
           /\ keyOp' = [op |-> "createKeys", num |-> num,
                        before |-> keyIntervals, clock |-> now, new |-> new]
    /\ files' = files \cup {"identity.key"}
    /\ lookup' = NoLookup
    /\ UNCHANGED <<now, mmVars, srvVars>>

\* ServerKeyring.removeDeadKeys(): the keys that have expired by now.
RemoveDeadKeys ==
    /\ LET ki == scanKeys(keyStore)
           cutoff == now - keySloppiness
           gone == removedNames(ki, cutoff)
       IN  /\ Rescan({k \in keyStore : k[3] \notin gone})
           /\ keyOp' = [op |-> "removeDeadKeys", before |-> keyStore,
                        cutoff |-> cutoff, logged |-> loggedKeys(ki, cutoff),
                        pairs |-> removalPairs(ki, cutoff)]
    /\ lookup' = NoLookup
    /\ UNCHANGED <<now, files, mmVars, srvVars>>

\* The remove-keys command: removeKeys(cmd, args).
RemoveKeysCommand(removeIdentity) ==
    /\ LET ki == scanKeys(keyStore)
           cutoff == FarFuture - keySloppiness
           gone == removedNames(ki, cutoff)
       IN  /\ Rescan({k \in keyStore : k[3] \notin gone})
           /\ keyOp' = [op |-> "removeKeys", before |-> keyStore,
                        cutoff |-> cutoff, removeIdentity |-> removeIdentity,
                        filesBefore |-> files]
    /\ files' = IF removeIdentity THEN removeIdentityKey(files) ELSE files
    /\ UNCHANGED <<now, lookup, mmVars, srvVars>>

\* Half a day passes.
StoreClockTick ==
    /\ now < MaxHalfDays * HalfDay
    /\ now' = now + HalfDay
    /\ lookup' = NoLookup
    /\ keyOp' = NoOp
    /\ UNCHANGED <<keyIntervals, liveKey, nextKeyRotation, keyStore, files,
                   mmVars, srvVars>>

NextKeyStore ==
    \/ \E num \in 1 .. MaxNew : CreateKeys(num)
    \/ RemoveDeadKeys
    \/ GetLiveKeyNow
    \/ StoreClockTick

SpecKeyStore == InitKeyStore /\ [][NextKeyStore]_vars

\* The remove-keys command is a process of its own: it finds the key
\* directory and the files as the server and the keygen command left them.
InitRemoveKeys ==
    /\ keyStore \in KeyStores
    /\ keyIntervals = scanKeys(keyStore)
    /\ now \in StoreTimes
    /\ LET r == checkKeys(keyIntervals, now)
       IN  liveKey = r.liveKey /\ nextKeyRotation = r.nextKeyRotation
    /\ lookup = NoLookup
    /\ files \in SUBSET IdentityFiles
    /\ keyOp = NoOp
    /\ MMIdle
    /\ SrvIdle

NextRemoveKeys ==
    \E removeIdentity \in BOOLEAN : RemoveKeysCommand(removeIdentity)

SpecRemoveKeys == InitRemoveKeys /\ [][NextRemoveKeys]_vars


(***************************************************************************)
(* SpecMM: the ModuleManager after __init__ (the three built-in modules    *)
(* registered, none enabled) under any sequence of calls.                  *)
(***************************************************************************)
\* Bound: the messages the manager is given (stored or delivered at once).
MaxQueue == 1

Messages == [id : {0}, body : Bodies]

QueuedEntries == UNION {deliverDir[m] : m \in ModuleNames}

InitMM ==
    /\ modules = BuiltinModules
    /\ syntax = UNION {getConfigSyntax(m) : m \in Range(BuiltinModules)}
    /\ nameToModule = Range(BuiltinModules)
    /\ enabled = {}
    /\ typeToModule = <<>>
    /\ queues = {}
    /\ deliverDir = [m \in ModuleNames |-> {}]
    /\ processed = {}
    /\ dispatch = NoDispatch
    /\ lastEnable = <<>>
    /\ mmLog = {}
    /\ keyIntervals = <<>>
    /\ liveKey = NoKey
    /\ nextKeyRotation = 0
    /\ now = 0
    /\ lookup = NoLookup
    /\ keyStore = {}
    /\ files = {}
    /\ keyOp = NoOp
    /\ SrvIdle

\* loadExtModule -> registerModule(m).
RegisterModule(m) ==
    /\ m \notin Range(modules)
    /\ LET r == registerModule(modules, syntax, nameToModule, m)
       IN  /\ modules' = r.modules
           /\ syntax' = r.syntax
           /\ nameToModule' = r.nameToModule
           /\ mmLog' = IF r.raised THEN {<<"ConfigError", m>>} ELSE {}
    /\ dispatch' = NoDispatch
    /\ UNCHANGED <<enabled, typeToModule, queues, deliverDir, processed,
                   lastEnable, keyVars, srvVars>>

\* m.configure(config, manager) -> manager.enableModule(m).
EnableModule(m) ==
    /\ m \in Range(modules)
    /\ LET r == enableModule(mmNow, m)
       IN  /\ typeToModule' = r.typeToModule
           /\ queues' = r.queues
           /\ enabled' = r.enabled
    /\ lastEnable' = [t \in DOMAIN lastEnable \cup getExitTypes(m) |->
                         IF t \in getExitTypes(m) THEN m ELSE lastEnable[t]]
    /\ mmLog' = enableWarnings(mmNow, m)
    /\ dispatch' = NoDispatch
    /\ UNCHANGED <<modules, syntax, nameToModule, deliverDir, processed,
                   keyVars, srvVars>>

\* m.configure(config, manager) -> manager.disableModule(m).
DisableModule(m) ==
    /\ m \in Range(modules)
    /\ LET r == disableModule(mmNow, m)
       IN  /\ typeToModule' = r.typeToModule
           /\ queues' = r.queues
           /\ enabled' = r.enabled
    /\ dispatch' = NoDispatch
    /\ mmLog' = {}
    /\ UNCHANGED <<modules, syntax, nameToModule, deliverDir, processed,
                   lastEnable, keyVars, srvVars>>

\* What becomes of the call queueMessage makes.
callOutcome(call) ==
    CASE call = NoCall -> "dropped"
      [] call.to \notin queues -> "KeyError"
      [] createDeliveryQueue(call.to) = "ImmediateDeliveryQueue" -> "delivered"
      [] OTHER -> "queued"

\* A variant of queueMessage's enqueue that stores nothing.
deliverDirAfterStoresNothing(call) == deliverDir

\* DeliveryQueue.queueDeliveryMessage on the queue of call.to.
deliverDirAfter(call) ==
    IF callOutcome(call) = "queued"
    THEN [deliverDir EXCEPT ![call.to] =
             DQ_queueDeliveryMessage(@, call.addr, call.msg)]
    ELSE deliverDir

\* ImmediateDeliveryQueue.queueDeliveryMessage: processMessage at once.
processedAfter(call) ==
    IF callOutcome(call) = "delivered"
    THEN processed \cup {[mod |-> call.to, addr |-> call.addr, msg |-> call.msg]}
    ELSE processed

(***************************************************************************)
(* ModuleManager.queueMessage(message, tag, exitType, address), with the   *)
(* queueDeliveryMessage of the queue it picks: an ImmediateDeliveryQueue   *)
(* calls the module's processMessage at once, any other queue stores the   *)
(* entry.  self.queues[name] raises KeyError for a name without a queue.   *)
(***************************************************************************)
QueueMessage(message, tag, exitType, address) ==
    LET call == queueMessage(typeToModule, message, tag, exitType, address)
    IN  /\ dispatch' = [exitType |-> exitType, message |-> message,
                        tag |-> tag, address |-> address, to |-> call.to,
                        addr |-> call.addr, msg |-> call.msg,
                        before |-> deliverDir, seen |-> processed,
                        outcome |-> callOutcome(call)]
        /\ deliverDir' = deliverDirAfter(call)
        /\ processed' = processedAfter(call)
        /\ mmLog' = queueMessageErrors(typeToModule, exitType)

MMQueueMessage ==
    /\ Cardinality(QueuedEntries) + Cardinality(processed) < MaxQueue
    /\ \E message \in Messages, tag \in Tags, exitType \in ExitTypes,
          address \in Addresses :
           QueueMessage(message, tag, exitType, address)
    /\ UNCHANGED <<modules, syntax, nameToModule, enabled, typeToModule,
                   queues, lastEnable, keyVars, srvVars>>

NextMM ==
    \/ \E m \in ExtModules : RegisterModule(m)
    \/ \E m \in ModuleNames : EnableModule(m)
    \/ \E m \in ModuleNames : DisableModule(m)
    \/ MMQueueMessage

SpecMM == InitMM /\ [][NextMM]_vars

\* The configuration is loaded: modules are loaded and registered, and each
\* registered module's configure enables or disables it.
NextLoad ==
    \/ \E m \in ExtModules \cup DupModules : RegisterModule(m)
    \/ \E m \in ModuleNames : EnableModule(m)
    \/ \E m \in ModuleNames : DisableModule(m)

SpecLoad == InitMM /\ [][NextLoad]_vars

(***************************************************************************)
(* MixminionServer.  Time is kept relative to the clock: untilMix is       *)
(* nextMix - time.time() (the loop only tests time.time() < nextMix), a    *)
(* pooled message carries its residency time (its age, followed up to the  *)
(* interval of the pool), and now, which the key ring reads, is followed   *)
(* up to MaxTime, past the last boundary of the key schedule.              *)
(***************************************************************************)
MIX_INTERVAL == 20

\* run(): nextShred = now + 6000.
ShredInterval == 6000

\* TimedMixQueue(mixDir, 60): the interval the pool is built with.
PoolInterval == 60

\* Bounds: the packets received, the time one call of the network service
\* takes (Tick or twice that), the clock's horizon, the time run() starts.
MaxPackets == 2
Tick == 10
MaxTime == 30
StartTime == 10

Durations == {Tick, 2 * Tick}

Min(a, b) == IF a < b THEN a ELSE b

Max(a, b) == IF a < b THEN b ELSE a

PacketIds == 1 .. MaxPackets

\* The key schedule the server runs with: two keysets, one rotation.
ServerSchedule == <<<<0, 20, 1>>, <<20, 100, 2>>>>

\* What a received packet turns out to be: padding, a packet the handler
\* rejects, a packet to relay, an exit message for MBOX, one for SMTP.
PacketKinds ==
    {[k |-> "PAD", rt |-> DROP_TYPE, body |-> "pad"],
     [k |-> "BAD", rt |-> DROP_TYPE, body |-> "bad"],
     [k |-> "FWD", rt |-> 1, body |-> "pkt"],
     [k |-> "EXIT", rt |-> MBOX_TYPE, body |-> "fwd"],
     [k |-> "EXIT", rt |-> SMTP_TYPE, body |-> "enc"]}

NoAddr == <<>>
RelayAddr == <<"10.0.0.1", 48099, "kid">>

(***************************************************************************)
(* PacketHandler.processMessage(packet): None for padding, an exception    *)
(* (CryptoError, ParseError or ContentError) for a packet it rejects, else *)
(* the routing decision ('QUEUE', (ipv4, msg)) or                          *)
(* ('EXIT', (rt, ri, app_key, tag, payload)).                              *)
(***************************************************************************)
processMessage(pkt) ==
    CASE pkt.k = "PAD" -> [tp |-> "None"]
      [] pkt.k = "BAD" -> [tp |-> "raise"]
      [] pkt.k = "FWD" ->
             [tp |-> "QUEUE", rt |-> pkt.rt, ri |-> RelayAddr, tag |-> NoTag,
              payload |-> [id |-> pkt.id, body |-> pkt.body]]
      [] OTHER ->
             [tp |-> "EXIT", rt |-> pkt.rt, ri |-> "alice", tag |-> "tagA",
              payload |-> [id |-> pkt.id, body |-> pkt.body]]

\* DeliveryQueue.sendReadyMessages: the handles it hands to _deliverMessages
\* and the queue it leaves, those entries pending.
DQ_ready(q) == {e.h : e \in {f \in q : f.st = "ready"}}

DQ_sendReadyMessages(q) ==
    {IF e.st = "ready" THEN [e EXCEPT !.st = "pending"] ELSE e : e \in q}

\* A failed entry's next attempt has come.
DQ_retryDue(q, h) ==
    {IF e.h = h /\ e.st = "waiting" THEN [e EXCEPT !.st = "ready"] ELSE e :
        e \in q}

Entry(q, h) == CHOOSE e \in q : e.h = h

\* TimedMixQueue.getBatch: the handles whose residency time has reached the
\* interval.
getBatch(pool) == {e.h : e \in {f \in pool : f.age >= PoolInterval}}

\* A variant of the batch that releases every message of the pool.
mixHandlesAll(pool) == {e.h : e \in pool}

\* MixPool.mix: handles = self.queue.getBatch().
mixHandles(pool) == getBatch(pool)

\* Time passes for the pool.
agePool(pool, d) ==
    {[e EXCEPT !.age = Min(PoolInterval, @ + d)] : e \in pool}

\* while time.time() < nextMix
LoopHead(u) == IF u > 0 THEN "net" ELSE "sync"

\* packetHandler.syncLogs() left undone.
syncLogsSkipped(u) == u

\* packetHandler.syncLogs(): nothing of the hash log is left unsynced.
syncLogs(u) == {}

\* An exception out of processMessage.
Raised == None

DeliveryResults ==
    {DELIVER_OK, DELIVER_FAIL_RETRY, DELIVER_FAIL_NORETRY, Raised}

\* What a module's processMessage may answer; "raise" is an exception.
ModuleResults(m) ==
    CASE m = "DROP" -> {DELIVER_OK}
      [] m = "SMTP_MIX2" -> {DELIVER_OK, Raised}
      [] OTHER -> {DELIVER_OK, DELIVER_FAIL_RETRY, DELIVER_FAIL_NORETRY, Raised}

\* A variant of _deliverMessages that reports an exception as retriable.
deliverOneRetriesException(q, h, result) ==
    CASE result = DELIVER_OK -> DQ_deliverySucceeded(q, h)
      [] result = DELIVER_FAIL_NORETRY -> DQ_deliveryFailed(q, h, FALSE)
      [] OTHER -> DQ_deliveryFailed(q, h, TRUE)

\* A variant of _deliverMessages that takes the two failure results for
\* each other.
deliverOneSwapsFailures(q, h, result) ==
    CASE result = DELIVER_OK -> DQ_deliverySucceeded(q, h)
      [] result = DELIVER_FAIL_RETRY -> DQ_deliveryFailed(q, h, FALSE)
      [] result = DELIVER_FAIL_NORETRY -> DQ_deliveryFailed(q, h, TRUE)
      [] OTHER -> DQ_deliveryFailed(q, h, FALSE)

\* SimpleModuleDeliveryQueue._deliverMessages, for one entry of the list.
deliverOne(q, h, result) ==
    CASE result = DELIVER_OK -> DQ_deliverySucceeded(q, h)
      [] result = DELIVER_FAIL_RETRY -> DQ_deliveryFailed(q, h, TRUE)
      [] result = DELIVER_FAIL_NORETRY -> DQ_deliveryFailed(q, h, FALSE)
      [] OTHER -> DQ_deliveryFailed(q, h, FALSE)

\* ModuleManager.configure for a configuration that enables MBOX and leaves
\* SMTP-Via-Mixmaster disabled.
ServerModules ==
    disableModule(
        enableModule(
            enableModule([typeToModule |-> <<>>, queues |-> {}, enabled |-> {}],
                         "MBOX"),
            "DROP"),
        "SMTP_MIX2")

Init ==
    /\ keyIntervals = ServerSchedule
    /\ now = StartTime
    /\ LET r == checkKeys(keyIntervals, now)
       IN  /\ liveKey = r.liveKey
           /\ nextKeyRotation = r.nextKeyRotation
           /\ serverKeys = [packetHandler |-> r.ret[3], tlsContext |-> r.ret[3]]
    /\ lookup = NoLookup
    /\ keyStore = Range(keyIntervals)
    /\ files = {"identity.key", "dhparam"}
    /\ keyOp = NoOp
    /\ modules = BuiltinModules
    /\ syntax = UNION {getConfigSyntax(m) : m \in Range(BuiltinModules)}
    /\ nameToModule = Range(BuiltinModules)
    /\ typeToModule = ServerModules.typeToModule
    /\ queues = ServerModules.queues
    /\ enabled = ServerModules.enabled
    /\ deliverDir = [m \in ModuleNames |-> {}]
    /\ processed = {}
    /\ dispatch = NoDispatch
    /\ lastEnable = <<>>
    /\ mmLog = {}
    /\ pc = "net"
    /\ untilMix = MIX_INTERVAL
    /\ incomingQueue = {}
    /\ mixPool = {}
    /\ outgoingQueue = {}
    /\ batch = {}
    /\ unsynced = {}
    /\ arrived = 0
    /\ routed = {}
    /\ excCount = [i \in PacketIds |-> 0]
    /\ faulted = {}
    /\ msgList = <<>>
    /\ calls = <<>>
    /\ escaped = NoEscape
    /\ handles = {}
    /\ nextShred = now + ShredInterval
    /\ cleaned = <<>>

mmKept == <<modules, syntax, nameToModule, enabled, typeToModule, queues,
            dispatch, lastEnable>>

mmFixed == <<mmKept, mmLog>>

keyFixed == <<keyIntervals, liveKey, nextKeyRotation, lookup, serverKeys,
              keyStore, files, keyOp>>

\* _MMTPServer.onMessageSent(msg, handle): the outgoing queue it leaves.
onMessageSent(q, h) == DQ_deliverySucceeded(q, h)

\* A variant of onMessageUndeliverable that reports every failure as final.
onMessageUndeliverableNeverRetries(q, h, retriable) ==
    DQ_deliveryFailed(q, h, FALSE)

\* _MMTPServer.onMessageUndeliverable(msg, handle, retriable): the outgoing
\* queue it leaves.
onMessageUndeliverable(q, h, retriable) == DQ_deliveryFailed(q, h, retriable)

\* _MMTPServer.onMessageReceived -> IncomingQueue.queueMessage.
OnMessageReceived(kind) ==
    /\ pc = "net"
    /\ arrived < MaxPackets
    /\ arrived' = arrived + 1
    /\ incomingQueue' = DQ_queueDeliveryMessage(incomingQueue, NoAddr,
           [id |-> arrived + 1, k |-> kind.k, rt |-> kind.rt, body |-> kind.body])
    /\ UNCHANGED <<pc, untilMix, mixPool, outgoingQueue, batch, unsynced,
                   routed, excCount, faulted, deliverDir, processed, now,
                   mmFixed, keyFixed, dlvVars, escaped,
                   handles, shredVars>>

\* _MMTPServer.onMessageSent -> OutgoingQueue.deliverySucceeded.
OnMessageSent(h) ==
    /\ pc = "net"
    /\ \E e \in outgoingQueue : e.h = h /\ e.st = "pending"
    /\ outgoingQueue' = onMessageSent(outgoingQueue, h)
    /\ UNCHANGED <<pc, untilMix, incomingQueue, mixPool, batch, unsynced,
                   arrived, routed, excCount, faulted, deliverDir, processed,
                   now, mmFixed, keyFixed, dlvVars, escaped,
                   handles, shredVars>>

\* _MMTPServer.onMessageUndeliverable -> OutgoingQueue.deliveryFailed.
OnMessageUndeliverable(h, retriable) ==
    /\ pc = "net"
    /\ \E e \in outgoingQueue : e.h = h /\ e.st = "pending"
    /\ outgoingQueue' = onMessageUndeliverable(outgoingQueue, h, retriable)
    /\ UNCHANGED <<pc, untilMix, incomingQueue, mixPool, batch, unsynced,
                   arrived, routed, excCount, faulted, deliverDir, processed,
                   now, mmFixed, keyFixed, dlvVars, escaped,
                   handles, shredVars>>

\* The time of a failed entry's next attempt comes (outgoing queue).
OutgoingRetryDue(h) ==
    /\ pc = "net"
    /\ \E e \in outgoingQueue : e.h = h /\ e.st = "waiting"
    /\ outgoingQueue' = DQ_retryDue(outgoingQueue, h)
    /\ UNCHANGED <<pc, untilMix, incomingQueue, mixPool, batch, unsynced,
                   arrived, routed, excCount, faulted, deliverDir, processed,
                   now, mmFixed, keyFixed, dlvVars, escaped,
                   handles, shredVars>>

\* The time of a failed entry's next attempt comes (a module's queue).
ModuleRetryDue(m, h) ==
    /\ pc = "net"
    /\ \E e \in deliverDir[m] : e.h = h /\ e.st = "waiting"
    /\ deliverDir' = [deliverDir EXCEPT ![m] = DQ_retryDue(@, h)]
    /\ UNCHANGED <<pc, untilMix, incomingQueue, mixPool, outgoingQueue, batch,
                   unsynced, arrived, routed, excCount, faulted, processed,
                   now, mmFixed, keyFixed, dlvVars, escaped,
                   handles, shredVars>>

(***************************************************************************)
(* run(), the inner loop: mmtpServer.process(1) returns after d seconds    *)
(* and incomingQueue.sendReadyMessages() hands the ready entries to        *)
(* _deliverMessages.                                                       *)
(***************************************************************************)
NetService(d) ==
    /\ pc = "net"
    /\ now' = Min(MaxTime, now + d)
    /\ untilMix' = Max(0, untilMix - d)
    /\ mixPool' = agePool(mixPool, d)
    /\ batch' = DQ_ready(incomingQueue)
    /\ incomingQueue' = DQ_sendReadyMessages(incomingQueue)
    /\ pc' = IF batch' = {} THEN LoopHead(untilMix') ELSE "incoming"
    /\ UNCHANGED <<outgoingQueue, unsynced, arrived, routed, excCount, faulted,
                   deliverDir, processed, mmFixed, keyFixed, dlvVars, escaped,
                   handles, shredVars>>

\* A variant of IncomingQueue._deliverMessages that leaves a rejected packet
\* in the queue.
deliverIncomingKeepsRejected(q, pool, h) ==
    LET e == Entry(q, h)
        res == processMessage(e.msg)
    IN  IF res.tp \in {"None", "raise"}
        THEN [queue |-> q, pool |-> pool, logged |-> {}]
        ELSE [queue |-> DQ_deliverySucceeded(q, h),
              pool |-> pool \cup {[h |-> newHandle(pool), obj |-> res, age |-> 0]},
              logged |-> {e.msg.id}]

\* IncomingQueue._deliverMessages, for the entry h of the list: the incoming
\* queue and the pool it leaves, and the packets the hash log has taken.
deliverIncoming(q, pool, h) ==
    LET e == Entry(q, h)
        res == processMessage(e.msg)
    IN  CASE res.tp = "None" ->
                 [queue |-> q, pool |-> pool, logged |-> {}]
          [] res.tp = "raise" ->
                 [queue |-> DQ_deliveryFailed(q, h, FALSE), pool |-> pool,
                  logged |-> {}]
          [] OTHER ->
                 [queue |-> DQ_deliverySucceeded(q, h),
                  pool |-> pool \cup
                      {[h |-> newHandle(pool), obj |-> res, age |-> 0]},
                  logged |-> {e.msg.id}]

\* IncomingQueue._deliverMessages, for one entry of the list.
DeliverIncoming(h) ==
    /\ pc = "incoming"
    /\ h \in batch
    /\ LET r == deliverIncoming(incomingQueue, mixPool, h)
       IN  /\ incomingQueue' = r.queue
           /\ mixPool' = r.pool
           /\ unsynced' = unsynced \cup r.logged
    /\ batch' = batch \ {h}
    /\ pc' = IF batch' = {} THEN LoopHead(untilMix) ELSE "incoming"
    /\ UNCHANGED <<untilMix, outgoingQueue, arrived, routed, excCount, faulted,
                   deliverDir, processed, now, mmFixed, keyFixed, dlvVars, escaped,
                   handles, shredVars>>

\* run(): self.packetHandler.syncLogs().
SyncLogs ==
    /\ pc = "sync"
    /\ unsynced' = syncLogs(unsynced)
    /\ pc' = "mix"
    /\ UNCHANGED <<untilMix, incomingQueue, mixPool, outgoingQueue, batch,
                   arrived, routed, excCount, faulted, deliverDir, processed,
                   now, mmFixed, keyFixed, dlvVars, escaped,
                   handles, shredVars>>

\* MixPool.mix: the batch is chosen.
MixBegin ==
    /\ pc = "mix"
    /\ handles' = mixHandles(mixPool)
    /\ batch' = handles'
    /\ pc' = IF batch' = {} THEN "outgoing" ELSE "mixing"
    /\ UNCHANGED <<untilMix, incomingQueue, mixPool, outgoingQueue, unsynced,
                   arrived, routed, excCount, faulted, deliverDir, processed,
                   now, mmFixed, keyFixed, dlvVars, escaped, shredVars>>

\* A variant of removeMessage that leaves the entry in the pool.
removeMessageKeepsEntry(pool, h) == pool

\* MixPool.mix: self.queue.removeMessage(h).
removeMessage(pool, h) == pool \ {Entry(pool, h)}

\* MixPool.mix, for one handle of the batch: the message is queued for its
\* exit module or for the MMTP server, and removed from the pool.
MixRoute(h) ==
    /\ pc = "mixing"
    /\ h \in batch
    /\ LET e == Entry(mixPool, h)
           o == e.obj
           call == queueMessage(typeToModule, o.payload, o.tag, o.rt, o.ri)
       IN  /\ IF o.tp = "EXIT"
              THEN /\ callOutcome(call) # "KeyError"
                   /\ deliverDir' = deliverDirAfter(call)
                   /\ processed' = processedAfter(call)
                   /\ mmLog' = queueMessageErrors(typeToModule, o.rt)
                   /\ UNCHANGED outgoingQueue
              ELSE /\ outgoingQueue' =
                          DQ_queueDeliveryMessage(outgoingQueue, o.ri, o.payload)
                   /\ UNCHANGED <<deliverDir, processed, mmLog>>
           /\ routed' = routed \cup
                  {[id |-> o.payload.id, tp |-> o.tp, rt |-> o.rt, age |-> e.age,
                    synced |-> o.payload.id \notin unsynced,
                    to |-> IF o.tp = "EXIT" THEN call.to ELSE "MMTP"]}
           /\ mixPool' = removeMessage(mixPool, h)
    /\ batch' = batch \ {h}
    /\ pc' = IF batch' = {} THEN "outgoing" ELSE "mixing"
    /\ UNCHANGED <<untilMix, incomingQueue, unsynced, arrived, excCount,
                   faulted, now, mmKept, keyFixed, dlvVars, escaped,
                   handles, shredVars>>

\* MixPool.mix, for one handle of the batch, when queueMessage or
\* queueDeliveryMessage raises (the queue's storage fails): nothing catches
\* the exception in mix() or in run().
MixRouteRaises(h) ==
    /\ pc = "mixing"
    /\ h \in batch
    /\ faulted' = faulted \cup {Entry(mixPool, h).obj.payload.id}
    /\ pc' = "crashed"
    /\ UNCHANGED <<untilMix, incomingQueue, mixPool, outgoingQueue, batch,
                   unsynced, arrived, routed, excCount, deliverDir, processed,
                   now, mmFixed, keyFixed, dlvVars, escaped,
                   handles, shredVars>>

\* run(): self.outgoingQueue.sendReadyMessages(); the ready entries are with
\* the MMTP server.
FlushOutgoing ==
    /\ pc = "outgoing"
    /\ outgoingQueue' = DQ_sendReadyMessages(outgoingQueue)
    /\ handles' = {}
    /\ pc' = "modules"
    /\ UNCHANGED <<untilMix, incomingQueue, mixPool, batch, unsynced, arrived,
                   routed, excCount, faulted, deliverDir, processed, now,
                   mmFixed, keyFixed, dlvVars, escaped, shredVars>>

\* ModuleManager.sendReadyMessages: every queue hands its ready entries to
\* its _deliverMessages.
FlushModules ==
    /\ pc = "modules"
    /\ batch' = UNION {{<<m, h>> : h \in DQ_ready(deliverDir[m])} : m \in queues}
    /\ deliverDir' = [m \in ModuleNames |->
           IF m \in queues THEN DQ_sendReadyMessages(deliverDir[m])
           ELSE deliverDir[m]]
    /\ pc' = IF batch' = {} THEN "next" ELSE "delivering"
    /\ UNCHANGED <<untilMix, incomingQueue, mixPool, outgoingQueue, unsynced,
                   arrived, routed, excCount, faulted, processed, now,
                   mmFixed, keyFixed, dlvVars, escaped,
                   handles, shredVars>>

\* SimpleModuleDeliveryQueue._deliverMessages, for one entry of the list:
\* the module's processMessage answers result.
DeliverModule(m, h, result) ==
    /\ pc = "delivering"
    /\ <<m, h>> \in batch
    /\ result \in ModuleResults(m)
    /\ LET e == Entry(deliverDir[m], h)
       IN  /\ processed' = processed \cup
                  {[mod |-> m, addr |-> e.addr, msg |-> e.msg]}
           /\ excCount' = IF result = Raised
                          THEN [excCount EXCEPT ![e.msg.id] = @ + 1]
                          ELSE excCount
    /\ deliverDir' = [deliverDir EXCEPT ![m] = deliverOne(@, h, result)]
    /\ batch' = batch \ {<<m, h>>}
    /\ pc' = IF batch' = {} THEN "next" ELSE "delivering"
    /\ UNCHANGED <<untilMix, incomingQueue, mixPool, outgoingQueue, unsynced,
                   arrived, routed, faulted, now, mmFixed, keyFixed, dlvVars, escaped,
                   handles, shredVars>>

\* run(): now = time.time(); nextMix = now + MIX_INTERVAL.
NextMix ==
    /\ pc = "next"
    /\ untilMix' = MIX_INTERVAL
    /\ pc' = LoopHead(untilMix')
    /\ UNCHANGED <<incomingQueue, mixPool, outgoingQueue, batch, unsynced,
                   arrived, routed, excCount, faulted, deliverDir, processed,
                   now, mmFixed, keyFixed, dlvVars, escaped,
                   handles, shredVars>>

Handles == 1 .. MaxPackets

\* The steps of run() itself.
LoopStep ==
    \/ \E d \in Durations : NetService(d)
    \/ \E h \in Handles : DeliverIncoming(h)
    \/ SyncLogs
    \/ MixBegin
    \/ \E h \in Handles : MixRoute(h)
    \/ FlushOutgoing
    \/ FlushModules
    \/ \E m \in ModuleNames, h \in Handles, result \in DeliveryResults :
           DeliverModule(m, h, result)
    \/ NextMix

\* What the network and the storage do to it.
EnvStep ==
    \/ \E kind \in PacketKinds : OnMessageReceived(kind)
    \/ \E h \in Handles : OnMessageSent(h)
    \/ \E h \in Handles, retriable \in BOOLEAN : OnMessageUndeliverable(h, retriable)
    \/ \E h \in Handles : OutgoingRetryDue(h)
    \/ \E m \in ModuleNames, h \in Handles : ModuleRetryDue(m, h)
    \/ \E h \in Handles : MixRouteRaises(h)

Next == LoopStep \/ EnvStep

Spec == Init /\ [][Next]_vars

\* The server loop keeps running: a step of run() that can be taken is taken.
FairSpec == Spec /\ WF_vars(LoopStep)

(***************************************************************************)
(* SpecEscape: the message-body escaper.  A string is a list of byte       *)
(* values; None in the place of a string is PyNone, a string s is          *)
(* PyStr(s).                                                               *)
(***************************************************************************)
\* Bound: the length of a payload.
MaxLen == 2

\* The bytes payloads are made of: the ends of the two non-printing ranges,
\* their neighbours, a letter and the last byte value.
SampleBytes == {0, 6, 7, 13, 14, 31, 32, 65, 255}

Strings(n) == UNION {[1 .. k -> SampleBytes] : k \in 0 .. n}

PyNone == [t |-> "None"]

PyStr(s) == [t |-> "str", v |-> s]

\* The string 'err'.
ErrString == <<101, 114, 114>>

\* The tags the escaper is given: None, 'err', the empty string, a printable
\* tag and a binary one.
SampleTags == {PyNone, PyStr(ErrString), PyStr(<<>>), PyStr(<<65>>),
               PyStr(<<0, 255>>)}

\* A variant of _nonprinting that takes every control character.
_nonprintingAllControls == 0 .. 31

\* _nonprinting: range(0x00, 0x07) + range(0x0E, 0x20).
_nonprinting == (0 .. 6) \cup (14 .. 31)

\* s.translate(_allChars, deletechars): s without the bytes of deletechars.
translate(s, deletechars) == SelectSeq(s, LAMBDA c : c \notin deletechars)

isPrintable(s) == Len(translate(s, _nonprinting)) = Len(s)

\* The base64 character of a 6-bit value.
b64char(v) ==
    CASE v < 26 -> 65 + v
      [] v < 52 -> 97 + (v - 26)
      [] v < 62 -> 48 + (v - 52)
      [] v = 62 -> 43
      [] OTHER -> 47

\* binascii.b2a_base64 without its newline: 3 bytes make 4 characters, and
\* a last group of 1 or 2 bytes is padded with '='.
RECURSIVE b2a_base64(_)
b2a_base64(s) ==
    CASE Len(s) = 0 -> <<>>
      [] Len(s) = 1 ->
             LET n == s[1] * 16
             IN  <<b64char(n \div 64), b64char(n % 64), 61, 61>>
      [] Len(s) = 2 ->
             LET n == (s[1] * 256 + s[2]) * 4
             IN  <<b64char(n \div 4096), b64char((n \div 64) % 64),
                   b64char(n % 64), 61>>
      [] OTHER ->
             LET n == s[1] * 65536 + s[2] * 256 + s[3]
             IN  <<b64char(n \div 262144), b64char((n \div 4096) % 64),
                   b64char((n \div 64) % 64), b64char(n % 64)>>
                     \o b2a_base64(SubSeq(s, 4, Len(s)))

\* base64.encodestring(s): a line and its newline for every 57 bytes.
RECURSIVE encodestring(_)
encodestring(s) ==
    IF s = <<>> THEN <<>>
    ELSE LET k == IF Len(s) < 57 THEN Len(s) ELSE 57
         IN  b2a_base64(SubSeq(s, 1, k)) \o <<10>>
                 \o encodestring(SubSeq(s, k + 1, Len(s)))

\* str.strip(): without the white space at its ends.
Whitespace == {9, 10, 11, 12, 13, 32}

RECURSIVE lstrip(_)
lstrip(s) ==
    IF s # <<>> /\ s[1] \in Whitespace THEN lstrip(Tail(s)) ELSE s

RECURSIVE rstrip(_)
rstrip(s) ==
    IF s # <<>> /\ s[Len(s)] \in Whitespace
    THEN rstrip(SubSeq(s, 1, Len(s) - 1))
    ELSE s

strip(s) == lstrip(rstrip(s))

\* _escapeMessage(message, tag, text): None, or (code, message, tag).
_escapeMessage(message, tag, text) ==
    IF tag = PyStr(ErrString)
    THEN PyNone
    ELSE LET code == CASE tag # PyNone -> "ENC"
                       [] isPrintable(message) -> "TXT"
                       [] OTHER -> "BIN"
         IN  [t |-> "tuple",
              code |-> code,
              message |-> IF text /\ code # "TXT"
                          THEN encodestring(message) ELSE message,
              tag |-> IF text /\ tag # PyNone /\ tag.v # <<>>
                      THEN PyStr(strip(encodestring(tag.v))) ELSE tag]

\* The arguments of a call that is about to be made.
EscapeArgs ==
    [op : {"args"}, message : Strings(MaxLen), tag : SampleTags,
     text : BOOLEAN]

InitEscape ==
    /\ escaped \in EscapeArgs
    /\ msgList = <<>>
    /\ calls = <<>>
    /\ pc = "idle"
    /\ untilMix = 0
    /\ incomingQueue = {}
    /\ mixPool = {}
    /\ outgoingQueue = {}
    /\ batch = {}
    /\ unsynced = {}
    /\ arrived = 0
    /\ serverKeys = <<>>
    /\ routed = {}
    /\ excCount = <<>>
    /\ faulted = {}
    /\ handles = {}
    /\ nextShred = 0
    /\ cleaned = <<>>
    /\ MMIdle
    /\ keyIntervals = <<>>
    /\ liveKey = NoKey
    /\ nextKeyRotation = 0
    /\ now = 0
    /\ lookup = NoLookup
    /\ keyStore = {}
    /\ files = {}
    /\ keyOp = NoOp

\* _escapeMessage(message, tag, text) is called.
EscapeMessage ==
    /\ escaped.op = "args"
    /\ escaped' = [op |-> "_escapeMessage", message |-> escaped.message,
                   tag |-> escaped.tag, text |-> escaped.text,
                   ret |-> _escapeMessage(escaped.message, escaped.tag,
                                          escaped.text)]
    /\ UNCHANGED <<keyVars, mmVars, pc, untilMix, incomingQueue, mixPool,
                   outgoingQueue, batch, unsynced, arrived, serverKeys, routed,
                   excCount, faulted, dlvVars, handles, shredVars>>

NextEscape == EscapeMessage

SpecEscape == InitEscape /\ [][NextEscape]_vars

(***************************************************************************)
(* SpecDeliver and SpecExit: the delivery queues by themselves (the        *)
(* outgoing queue in one, the module queues in the other).  Entries are    *)
(* queued,                                                                 *)
(* sendReadyMessages hands the ready ones to _deliverMessages as one list  *)
(* (in any order), and the transport reports what became of each packet.   *)
(* msgList and calls hold the list and the calls of the last               *)
(* _deliverMessages.                                                       *)
(***************************************************************************)
\* Bound: the messages that are queued in all.
MaxBatch == 2

\* The relay endpoints packets are sent to: the two differ in the port.
Endpoints == {RelayAddr, <<"10.0.0.1", 48100, "kid">>}

\* The lists that hold every element of S once.
Orderings(S) ==
    {s \in [1 .. Cardinality(S) -> S] : \A i, j \in DOMAIN s : s[i] = s[j] => i = j}

\* sendReadyMessages: the (handle, addr, message, n_retries) list it builds,
\* the handles taken in the given order.
readyList(q, order) ==
    [i \in DOMAIN order |->
        LET e == Entry(q, order[i])
        IN  [h |-> e.h, addr |-> e.addr, msg |-> e.msg, retries |-> e.retries]]

\* A variant of the bucket that tells endpoints apart by the ip alone.
bucketByIp(list, addr) == SelectSeq(list, LAMBDA e : e.addr[1] = addr[1])

\* OutgoingQueue._deliverMessages: msgs[addr], the entries of the list for
\* one endpoint, in the order of the list.
bucket(list, addr) == SelectSeq(list, LAMBDA e : e.addr = addr)

\* OutgoingQueue._deliverMessages: the sendMessages calls, one for each key
\* of msgs; keys is the order in which msgs.items() yields them.
outgoingDeliverMessages(list, keys) ==
    [i \in DOMAIN keys |->
        LET b == bucket(list, keys[i])
        IN  [op |-> "sendMessages", ip |-> keys[i][1], port |-> keys[i][2],
             keyinfo |-> keys[i][3],
             messages |-> [j \in DOMAIN b |-> b[j].msg],
             handles |-> [j \in DOMAIN b |-> b[j].h]]]

\* ModuleManager.configure for a configuration that enables every built-in
\* module.
AllModules ==
    enableModule(
        enableModule(
            enableModule([typeToModule |-> <<>>, queues |-> {}, enabled |-> {}],
                         "MBOX"),
            "DROP"),
        "SMTP_MIX2")

InitDeliver ==
    /\ keyIntervals = ServerSchedule
    /\ now = StartTime
    /\ LET r == checkKeys(keyIntervals, now)
       IN  /\ liveKey = r.liveKey
           /\ nextKeyRotation = r.nextKeyRotation
           /\ serverKeys = [packetHandler |-> r.ret[3], tlsContext |-> r.ret[3]]
    /\ lookup = NoLookup
    /\ keyStore = Range(keyIntervals)
    /\ files = {"identity.key", "dhparam"}
    /\ keyOp = NoOp
    /\ modules = BuiltinModules
    /\ syntax = UNION {getConfigSyntax(m) : m \in Range(BuiltinModules)}
    /\ nameToModule = Range(BuiltinModules)
    /\ typeToModule = AllModules.typeToModule
    /\ queues = AllModules.queues
    /\ enabled = AllModules.enabled
    /\ deliverDir = [m \in ModuleNames |-> {}]
    /\ processed = {}
    /\ dispatch = NoDispatch
    /\ lastEnable = <<>>
    /\ mmLog = {}
    /\ pc = "net"
    /\ untilMix = MIX_INTERVAL
    /\ incomingQueue = {}
    /\ mixPool = {}
    /\ outgoingQueue = {}
    /\ batch = {}
    /\ unsynced = {}
    /\ arrived = 0
    /\ routed = {}
    /\ excCount = [i \in PacketIds |-> 0]
    /\ faulted = {}
    /\ msgList = <<>>
    /\ calls = <<>>
    /\ escaped = NoEscape
    /\ handles = {}
    /\ nextShred = now + ShredInterval
    /\ cleaned = <<>>

\* OutgoingQueue.queueDeliveryMessage(addr, msg).
QueueOutgoing(addr) ==
    /\ arrived < MaxBatch
    /\ arrived' = arrived + 1
    /\ outgoingQueue' = DQ_queueDeliveryMessage(outgoingQueue, addr,
           [id |-> arrived + 1, body |-> "pkt"])
    /\ UNCHANGED <<pc, untilMix, incomingQueue, mixPool, batch, unsynced,
                   routed, excCount, faulted, deliverDir, processed,
                   now, mmFixed, keyFixed, dlvVars, escaped,
                   handles, shredVars>>

\* OutgoingQueue.sendReadyMessages() with entries to send: the ready entries
\* go to _deliverMessages as one list and are with the transport from then.
SendReadyOutgoing ==
    /\ DQ_ready(outgoingQueue) # {}
    /\ outgoingQueue' = DQ_sendReadyMessages(outgoingQueue)
    /\ \E order \in Orderings(DQ_ready(outgoingQueue)) :
           /\ msgList' = readyList(outgoingQueue, order)
           /\ \E keys \in Orderings({e.addr : e \in Range(msgList')}) :
                  calls' = outgoingDeliverMessages(msgList', keys)
    /\ UNCHANGED <<pc, untilMix, incomingQueue, mixPool, batch, unsynced,
                   arrived, routed, excCount, faulted, deliverDir, processed,
                   now, mmFixed, keyFixed, escaped,
                   handles, shredVars>>

\* MBoxModule.addresses, as configure read it from the address file.
MBoxAddresses == [u \in {"alice"} |-> "alice@example.com"]

\* The exit info of an exit message: for MBOX a user the address file has
\* and one it does not have, for SMTP a mailbox and a string parseSMTPInfo
\* rejects.
InvalidMailbox == "no mailbox"

ExitInfos(exitType) ==
    IF exitType = MBOX_TYPE THEN {"alice", "mallory"}
    ELSE {"bob@example.com", InvalidMailbox}

\* What the world answers to the delivery of one message: to sendSMTPMessage
\* of MBOX that the mail was sent, an SMTPException, or an error of the
\* connection; to the Mixmaster command its exit code.
Outcomes(m) ==
    IF m = "MBOX" THEN {"sent", "SMTPException", "socket.error"} ELSE {0, 1}

\* sendSMTPMessage: DELIVER_OK, DELIVER_FAIL_RETRY on SMTPException; another
\* exception is not caught.
sendSMTPMessage(outcome) ==
    CASE outcome = "sent" -> DELIVER_OK
      [] outcome = "SMTPException" -> DELIVER_FAIL_RETRY
      [] OTHER -> Raised

\* A variant of MBoxModule.processMessage that mails to the user name when
\* the address file does not have the user.
mboxProcessMessageMailsAnyUser(message, tag, exitType, address, outcome) ==
    [result |-> sendSMTPMessage(outcome),
     calls |-> <<[op |-> "sendSMTPMessage",
                  to |-> IF address \in DOMAIN MBoxAddresses
                         THEN MBoxAddresses[address] ELSE address,
                  msg |-> message]>>]

\* MBoxModule.processMessage: its result and the calls it makes.
mboxProcessMessage(message, tag, exitType, address, outcome) ==
    IF address \notin DOMAIN MBoxAddresses
    THEN [result |-> DELIVER_FAIL_NORETRY, calls |-> <<>>]
    ELSE [result |-> sendSMTPMessage(outcome),
          calls |-> <<[op |-> "sendSMTPMessage", to |-> MBoxAddresses[address],
                       msg |-> message]>>]

\* A variant of MixmasterSMTPModule.processMessage that asks for a retry
\* when the command fails.
mixmasterProcessMessageChecksCode(message, tag, exitType, smtpAddress, code) ==
    IF smtpAddress = InvalidMailbox
    THEN [result |-> Raised, calls |-> <<>>]
    ELSE [result |-> IF code = 0 THEN DELIVER_OK ELSE DELIVER_FAIL_RETRY,
          calls |-> <<[op |-> "spawnl", to |-> smtpAddress, msg |-> message,
                       code |-> code]>>]

\* MixmasterSMTPModule.processMessage: parseSMTPInfo raises for a mailbox
\* that is not valid; else the command is run and its exit code logged.
mixmasterProcessMessage(message, tag, exitType, smtpAddress, code) ==
    IF smtpAddress = InvalidMailbox
    THEN [result |-> Raised, calls |-> <<>>]
    ELSE [result |-> DELIVER_OK,
          calls |-> <<[op |-> "spawnl", to |-> smtpAddress, msg |-> message,
                       code |-> code]>>]

moduleProcessMessage(m, message, tag, exitType, address, outcome) ==
    IF m = "MBOX"
    THEN mboxProcessMessage(message, tag, exitType, address, outcome)
    ELSE mixmasterProcessMessage(message, tag, exitType, address, outcome)

\* SimpleModuleDeliveryQueue._deliverMessages(msgList): the queue it leaves
\* and, in order, the calls the module made and what processMessage
\* answered for each handle.
RECURSIVE simpleDeliverMessages(_, _, _, _)
simpleDeliverMessages(m, q, list, env) ==
    IF list = <<>>
    THEN [queue |-> q, calls |-> <<>>]
    ELSE LET e == Head(list)
             p == moduleProcessMessage(m, e.msg, e.addr[3], e.addr[1],
                                       e.addr[2], env[e.h])
             rest == simpleDeliverMessages(m, deliverOne(q, e.h, p.result),
                                           Tail(list), env)
         IN  [queue |-> rest.queue,
              calls |-> p.calls
                  \o <<[op |-> "processMessage", h |-> e.h,
                        result |-> p.result]>>
                  \o rest.calls]

\* _MixmasterSMTPModuleDeliveryQueue._deliverMessages(msgList).
mixmasterDeliverMessages(m, q, list, env) ==
    LET r == simpleDeliverMessages(m, q, list, env)
    IN  [queue |-> r.queue,
         calls |-> Append(r.calls, [op |-> "flushMixmasterPool"])]

moduleDeliverMessages(m, q, list, env) ==
    IF createDeliveryQueue(m) = "_MixmasterSMTPModuleDeliveryQueue"
    THEN mixmasterDeliverMessages(m, q, list, env)
    ELSE simpleDeliverMessages(m, q, list, env)

\* MixPool.mix -> ModuleManager.queueMessage for a forward message.
QueueExit(exitType, address) ==
    /\ arrived < MaxBatch
    /\ arrived' = arrived + 1
    /\ LET call == queueMessage(typeToModule,
                                [id |-> arrived + 1, body |-> "fwd"],
                                "tagA", exitType, address)
       IN  /\ deliverDir' = deliverDirAfter(call)
           /\ processed' = processedAfter(call)
    /\ UNCHANGED <<pc, untilMix, incomingQueue, mixPool, outgoingQueue, batch,
                   unsynced, routed, excCount, faulted, now, mmFixed,
                   keyFixed, dlvVars, escaped,
                   handles, shredVars>>

\* sendReadyMessages() of the queue of module m with entries to send: the
\* ready entries go to _deliverMessages as one list.
SendReadyModule(m) ==
    /\ m \in queues
    /\ createDeliveryQueue(m) # "ImmediateDeliveryQueue"
    /\ DQ_ready(deliverDir[m]) # {}
    /\ \E order \in Orderings(DQ_ready(deliverDir[m])),
          env \in [DQ_ready(deliverDir[m]) -> Outcomes(m)] :
           LET list == readyList(deliverDir[m], order)
               r == moduleDeliverMessages(
                        m, DQ_sendReadyMessages(deliverDir[m]), list, env)
           IN  /\ deliverDir' = [deliverDir EXCEPT ![m] = r.queue]
               /\ processed' = processed \cup
                      {[mod |-> m, addr |-> list[i].addr, msg |-> list[i].msg] :
                          i \in DOMAIN list}
               /\ msgList' = list
               /\ calls' = r.calls
    /\ UNCHANGED <<pc, untilMix, incomingQueue, mixPool, outgoingQueue, batch,
                   unsynced, arrived, routed, excCount, faulted, now, mmFixed,
                   keyFixed, escaped,
                   handles, shredVars>>

\* SpecExit: the queues of the exit modules by themselves.
NextExit ==
    \/ \E exitType \in {MBOX_TYPE, SMTP_TYPE} :
           \E address \in ExitInfos(exitType) : QueueExit(exitType, address)
    \/ \E m \in ModuleNames : SendReadyModule(m)
    \/ \E m \in ModuleNames, h \in 1 .. MaxBatch : ModuleRetryDue(m, h)

SpecExit == InitDeliver /\ [][NextExit]_vars

NextDeliver ==
    \/ \E addr \in Endpoints : QueueOutgoing(addr)
    \/ SendReadyOutgoing
    \/ \E h \in 1 .. MaxBatch : OnMessageSent(h)
    \/ \E h \in 1 .. MaxBatch, retriable \in BOOLEAN :
           OnMessageUndeliverable(h, retriable)
    \/ \E h \in 1 .. MaxBatch : OutgoingRetryDue(h)

SpecDeliver == InitDeliver /\ [][NextDeliver]_vars

(***************************************************************************)
(* run()'s clean cadence.  SpecClean follows the clock of a server whose   *)
(* queues hold nothing from the start of run() to the first time           *)
(* now > nextShred holds: a pass of the outer loop takes MIX_INTERVAL      *)
(* seconds, or LongPass when a delivery blocks.  Queue.cleanQueue only     *)
(* expunges the files of removed messages, so a queue's entries are not    *)
(* touched by it.                                                          *)
(***************************************************************************)
LongPass == 1500

PassTimes == {MIX_INTERVAL, LongPass}

\* The configurations of the built-in modules: DropModule.configure enables
\* DROP whatever the configuration says.
ModuleConfigs == {ServerModules, AllModules}

\* Whether a queue of the class has a cleanQueue method.
hasCleanQueue(class) == class # "ImmediateDeliveryQueue"

\* ModuleManager.cleanQueues over self.queues.values() in the given order:
\* the queues cleaned, and whether queue.cleanQueue() raised.
RECURSIVE cleanQueues(_)
cleanQueues(order) ==
    IF order = <<>>
    THEN [cleaned |-> <<>>, raised |-> FALSE]
    ELSE IF ~hasCleanQueue(createDeliveryQueue(Head(order)))
         THEN [cleaned |-> <<>>, raised |-> TRUE]
         ELSE LET r == cleanQueues(Tail(order))
              IN  [cleaned |-> <<Head(order)>> \o r.cleaned,
                   raised |-> r.raised]

InitClean ==
    /\ keyIntervals = ServerSchedule
    /\ now = StartTime
    /\ LET r == checkKeys(keyIntervals, now)
       IN  /\ liveKey = r.liveKey
           /\ nextKeyRotation = r.nextKeyRotation
           /\ serverKeys = [packetHandler |-> r.ret[3], tlsContext |-> r.ret[3]]
    /\ lookup = NoLookup
    /\ keyStore = Range(keyIntervals)
    /\ files = {"identity.key", "dhparam"}
    /\ keyOp = NoOp
    /\ modules = BuiltinModules
    /\ syntax = UNION {getConfigSyntax(m) : m \in Range(BuiltinModules)}
    /\ nameToModule = Range(BuiltinModules)
    /\ \E mm \in ModuleConfigs :
           /\ typeToModule = mm.typeToModule
           /\ queues = mm.queues
           /\ enabled = mm.enabled
    /\ deliverDir = [m \in ModuleNames |-> {}]
    /\ processed = {}
    /\ dispatch = NoDispatch
    /\ lastEnable = <<>>
    /\ mmLog = {}
    /\ pc = "net"
    /\ untilMix = MIX_INTERVAL
    /\ incomingQueue = {}
    /\ mixPool = {}
    /\ outgoingQueue = {}
    /\ batch = {}
    /\ unsynced = {}
    /\ arrived = 0
    /\ routed = {}
    /\ excCount = [i \in PacketIds |-> 0]
    /\ faulted = {}
    /\ msgList = <<>>
    /\ calls = <<>>
    /\ escaped = NoEscape
    /\ handles = {}
    /\ nextShred = now + ShredInterval
    /\ cleaned = <<>>

\* run(): one pass of the outer loop, d seconds long, up to
\* now = time.time(); nextMix = now + MIX_INTERVAL; if now > nextShred.
IdlePass(d) ==
    /\ pc = "net"
    /\ now' = now + d
    /\ pc' = IF now' > nextShred THEN "shred" ELSE "net"
    /\ UNCHANGED <<keyIntervals, liveKey, nextKeyRotation, lookup, keyStore,
                   files, keyOp, mmVars, untilMix, incomingQueue, mixPool,
                   outgoingQueue, batch, unsynced, arrived, serverKeys, routed,
                   excCount, faulted, dlvVars, escaped, handles, shredVars>>

\* run(): the body of if now > nextShred.  cleanQueue is called on the
\* incoming queue, the pool's queue and the outgoing queue, then
\* moduleManager.cleanQueues() walks self.queues.values(), a dict's order;
\* nextShred = now + 6000 is reached when nothing has raised.
Shred(order) ==
    /\ pc = "shred"
    /\ LET r == cleanQueues(order)
       IN  /\ cleaned' = <<"incoming", "mix", "outgoing">> \o r.cleaned
           /\ nextShred' = IF r.raised THEN nextShred ELSE now + ShredInterval
           /\ pc' = IF r.raised THEN "crashed" ELSE "net"
    /\ UNCHANGED <<keyVars, mmVars, untilMix, incomingQueue, mixPool,
                   outgoingQueue, batch, unsynced, arrived, serverKeys, routed,
                   excCount, faulted, dlvVars, escaped, handles>>

NextClean ==
    \/ \E d \in PassTimes : IdlePass(d)
    \/ \E order \in Orderings(queues) : Shred(order)

SpecClean == InitClean /\ [][NextClean]_vars

(***************************************************************************)
(* The server loop call by call.  SpecSteps is the loop of Spec with the   *)
(* turns of IncomingQueue._deliverMessages and of MixPool.mix taken in two *)
(* steps each, the write to the next stage and the removal from this one:  *)
(* calls holds the write of the turn that is under way.  A server that     *)
(* stops leaves its queues, which are directories, as the last step left   *)
(* them.                                                                   *)
(***************************************************************************)
\* A variant of the first half of a turn of IncomingQueue._deliverMessages
\* that reports deliverySucceeded before the pool has the message.
incomingWriteRemovesFirst(q, pool, h) ==
    LET e == Entry(q, h)
        res == processMessage(e.msg)
    IN  CASE res.tp = "None" ->
                 [queue |-> q, pool |-> pool, logged |-> {}, more |-> FALSE]
          [] res.tp = "raise" ->
                 [queue |-> DQ_deliveryFailed(q, h, FALSE), pool |-> pool,
                  logged |-> {}, more |-> FALSE]
          [] OTHER ->
                 [queue |-> DQ_deliverySucceeded(q, h), pool |-> pool,
                  logged |-> {e.msg.id}, more |-> TRUE]

\* IncomingQueue._deliverMessages, a turn up to self.mixPool.queueObject(res):
\* more says that self.deliverySucceeded(handle) is still to come.
incomingWrite(q, pool, h) ==
    LET e == Entry(q, h)
        res == processMessage(e.msg)
    IN  CASE res.tp = "None" ->
                 [queue |-> q, pool |-> pool, logged |-> {}, more |-> FALSE]
          [] res.tp = "raise" ->
                 [queue |-> DQ_deliveryFailed(q, h, FALSE), pool |-> pool,
                  logged |-> {}, more |-> FALSE]
          [] OTHER ->
                 [queue |-> q,
                  pool |-> pool \cup
                      {[h |-> newHandle(pool), obj |-> res, age |-> 0]},
                  logged |-> {e.msg.id}, more |-> TRUE]

\* The turn for the entry h, up to mixPool.queueObject.
IncomingWrite(h) ==
    /\ pc = "incoming"
    /\ calls = <<>>
    /\ h \in batch
    /\ LET r == incomingWrite(incomingQueue, mixPool, h)
       IN  /\ incomingQueue' = r.queue
           /\ mixPool' = r.pool
           /\ unsynced' = unsynced \cup r.logged
           /\ calls' = IF r.more THEN <<[op |-> "queueObject", h |-> h]>>
                       ELSE <<>>
           /\ batch' = IF r.more THEN batch ELSE batch \ {h}
    /\ pc' = IF batch' = {} THEN LoopHead(untilMix) ELSE "incoming"
    /\ UNCHANGED <<untilMix, outgoingQueue, arrived, routed, excCount, faulted,
                   deliverDir, processed, now, mmFixed, keyFixed, msgList,
                   escaped, handles, shredVars>>

\* The rest of the turn: self.deliverySucceeded(handle).
IncomingRemove(h) ==
    /\ pc = "incoming"
    /\ calls = <<[op |-> "queueObject", h |-> h]>>
    /\ incomingQueue' = DQ_deliverySucceeded(incomingQueue, h)
    /\ calls' = <<>>
    /\ batch' = batch \ {h}
    /\ pc' = IF batch' = {} THEN LoopHead(untilMix) ELSE "incoming"
    /\ UNCHANGED <<untilMix, mixPool, outgoingQueue, unsynced, arrived, routed,
                   excCount, faulted, deliverDir, processed, now, mmFixed,
                   keyFixed, msgList, escaped, handles, shredVars>>

\* MixPool.mix, a turn up to moduleManager.queueMessage or
\* outgoingQueue.queueDeliveryMessage.
MixWrite(h) ==
    /\ pc = "mixing"
    /\ calls = <<>>
    /\ h \in batch
    /\ LET e == Entry(mixPool, h)
           o == e.obj
           call == queueMessage(typeToModule, o.payload, o.tag, o.rt, o.ri)
       IN  /\ IF o.tp = "EXIT"
              THEN /\ callOutcome(call) # "KeyError"
                   /\ deliverDir' = deliverDirAfter(call)
                   /\ processed' = processedAfter(call)
                   /\ mmLog' = queueMessageErrors(typeToModule, o.rt)
                   /\ UNCHANGED outgoingQueue
              ELSE /\ outgoingQueue' =
                          DQ_queueDeliveryMessage(outgoingQueue, o.ri, o.payload)
                   /\ UNCHANGED <<deliverDir, processed, mmLog>>
           /\ routed' = routed \cup
                  {[id |-> o.payload.id, tp |-> o.tp, rt |-> o.rt, age |-> e.age,
                    synced |-> o.payload.id \notin unsynced,
                    to |-> IF o.tp = "EXIT" THEN call.to ELSE "MMTP"]}
           /\ calls' = <<[op |-> IF o.tp = "EXIT" THEN "queueMessage"
                                 ELSE "queueDeliveryMessage",
                          h |-> h]>>
    /\ UNCHANGED <<pc, untilMix, incomingQueue, mixPool, batch, unsynced,
                   arrived, excCount, faulted, now, mmKept, keyFixed, msgList,
                   escaped, handles, shredVars>>

\* The rest of the turn: self.queue.removeMessage(h).
MixRemove(h) ==
    /\ pc = "mixing"
    /\ calls # <<>>
    /\ calls[1].h = h
    /\ mixPool' = removeMessage(mixPool, h)
    /\ calls' = <<>>
    /\ batch' = batch \ {h}
    /\ pc' = IF batch' = {} THEN "outgoing" ELSE "mixing"
    /\ UNCHANGED <<untilMix, incomingQueue, outgoingQueue, unsynced, arrived,
                   routed, excCount, faulted, deliverDir, processed, now,
                   mmFixed, keyFixed, msgList, escaped, handles, shredVars>>

NextSteps ==
    \/ \E d \in Durations : NetService(d)
    \/ \E kind \in PacketKinds : OnMessageReceived(kind)
    \/ \E h \in Handles : IncomingWrite(h)
    \/ \E h \in Handles : IncomingRemove(h)
    \/ SyncLogs
    \/ MixBegin
    \/ \E h \in Handles : MixWrite(h)
    \/ \E h \in Handles : MixRemove(h)
    \/ FlushOutgoing
    \/ FlushModules
    \/ \E m \in ModuleNames, h \in Handles, result \in DeliveryResults :
           DeliverModule(m, h, result)
    \/ NextMix
    \/ \E h \in Handles : OnMessageSent(h)
    \/ \E h \in Handles, retriable \in BOOLEAN : OnMessageUndeliverable(h, retriable)

SpecSteps == Init /\ [][NextSteps]_vars

(***************************************************************************)
(* MixminionServer.__init__ on an empty key directory.  SpecBoot starts    *)
(* the server at the times around a midnight (GMT): the key ring finds no  *)
(* key, a month's worth of keys is generated, and the packet handler and   *)
(* the TLS context are built from the key _getLiveKey() answers.           *)
(***************************************************************************)
\* Bounds: the seconds before and after midnight the server is started at,
\* and the seconds the generation of the keys may take.
BootWindow == 65
MaxBootDelay == 1

BootTimes == (Day - BootWindow) .. (Day + BootWindow)

ceilDiv(a, b) == (a + b - 1) \div b

\* nKeys = ceilDiv(30*24*60*60, keylife)
BootKeys == ceilDiv(30 * Day, PublicKeyLifetime)

InitBoot ==
    /\ keyStore = {}
    /\ keyIntervals = <<>>
    /\ now \in BootTimes
    /\ liveKey = NoKey
    /\ nextKeyRotation = 0
    /\ lookup = NoLookup
    /\ files = {}
    /\ keyOp = NoOp
    /\ MMIdle
    /\ SrvIdle

\* MixminionServer.__init__, up to getTLSContext: d seconds pass while the
\* keys are generated.
ServerInit(d) ==
    /\ keyOp = NoOp
    /\ now' = now + d
    /\ LET found == _getLiveKey(keyIntervals, liveKey, nextKeyRotation, None, now)
           new == IF found.ret = NoKey
                  THEN createKeys(keyIntervals, keyRange(keyStore), BootKeys,
                                  None, now)
                  ELSE <<>>
       IN  /\ keyStore' = keyStore \cup Range(new)
           /\ keyIntervals' = scanKeys(keyStore')
           /\ LET r == checkKeys(keyIntervals', now')
              IN  /\ liveKey' = r.liveKey
                  /\ nextKeyRotation' = r.nextKeyRotation
                  /\ serverKeys' = [packetHandler |-> r.ret[3],
                                    tlsContext |-> r.ret[3]]
                  /\ lookup' = [when |-> now', ret |-> r.ret]
           /\ keyOp' = [op |-> "bootstrap", clock |-> now, new |-> new]
    /\ files' = files \cup {"identity.key", "dhparam"}
    /\ UNCHANGED <<mmVars, pc, untilMix, incomingQueue, mixPool, outgoingQueue,
                   batch, unsynced, arrived, routed, excCount, faulted,
                   dlvVars, escaped, handles, shredVars>>

NextBoot == \E d \in 0 .. MaxBootDelay : ServerInit(d)

SpecBoot == InitBoot /\ [][NextBoot]_vars

(***************************************************************************)
(* The names createKeys gives.  SpecNames starts from a key directory that *)
(* holds any set of the key numbers up to MaxName, one keyset a day, and   *)
(* applies one createKeys call to it.                                      *)
(***************************************************************************)
MaxName == 5

NameStores ==
    {{<<n * Day, (n + 1) * Day, n>> : n \in N} : N \in SUBSET (0 .. MaxName)}

InitNames ==
    /\ keyStore \in NameStores
    /\ keyIntervals = scanKeys(keyStore)
    /\ now = 0
    /\ LET r == checkKeys(keyIntervals, now)
       IN  liveKey = r.liveKey /\ nextKeyRotation = r.nextKeyRotation
    /\ lookup = NoLookup
    /\ files = {}
    /\ keyOp \in [op : {"args"}, num : 1 .. MaxNew]
    /\ MMIdle
    /\ SrvIdle

\* ServerKeyring.createKeys(num), for the num that was drawn.
CreateKeysCall ==
    /\ keyOp.op = "args"
    /\ LET new == createKeys(keyIntervals, keyRange(keyStore), keyOp.num,
                             None, now)
       IN  /\ Rescan(keyStore \cup Range(new))
           /\ keyOp' = [op |-> "createKeys", num |-> keyOp.num,
                        before |-> keyIntervals, clock |-> now, new |-> new]
    /\ files' = files \cup {"identity.key"}
    /\ lookup' = NoLookup
    /\ UNCHANGED <<now, mmVars, srvVars>>

NextNames == CreateKeysCall

SpecNames == InitNames /\ [][NextNames]_vars

(***************************************************************************)
(* What the last queueMessage call did.                                    *)
(***************************************************************************)
\* The call stored one entry (addr, msg) in m's queue, or, m's queue being
\* an ImmediateDeliveryQueue, handed (addr, msg) to m's processMessage; it
\* touched nothing else.
EnqueuedInto(m, addr, msg) ==
    \/ /\ dispatch.outcome = "queued"
       /\ dispatch.to = m
       /\ processed = dispatch.seen
       /\ \A o \in ModuleNames \ {m} : deliverDir[o] = dispatch.before[o]
       /\ dispatch.before[m] \subseteq deliverDir[m]
       /\ \E e \in deliverDir[m] :
              /\ deliverDir[m] \ dispatch.before[m] = {e}
              /\ e.addr = addr /\ e.msg = msg
              /\ e.retries = 0 /\ e.st = "ready"
    \/ /\ dispatch.outcome = "delivered"
       /\ dispatch.to = m
       /\ deliverDir = dispatch.before
       /\ processed = dispatch.seen \cup {[mod |-> m, addr |-> addr, msg |-> msg]}

\* The call reached m's queue with some entry.
DispatchedTo(m) ==
    /\ dispatch.outcome \in {"queued", "delivered"}
    /\ EnqueuedInto(m, dispatch.addr, dispatch.msg)

(***************************************************************************)
(* C3, as stated: after any sequence of registerModule / enableModule /    *)
(* disableModule calls, for every enabled module M and every exit type T   *)
(* of M, queueMessage(_, _, T, _) enqueues into M's delivery queue.        *)
(***************************************************************************)
C3_EveryEnabledModuleGetsItsTypes ==
    dispatch.outcome # "none"
    => \A m \in enabled :
           dispatch.exitType \in getExitTypes(m) => DispatchedTo(m)

(***************************************************************************)
(* C3, amended: for every enabled module M and every exit type T of M such *)
(* that M is the module enabled last for T, queueMessage(_, _, T, _)       *)
(* enqueues into M's delivery queue.                                       *)
(***************************************************************************)
C3_LastEnabledModuleGetsItsTypes ==
    dispatch.outcome # "none"
    => \A m \in enabled :
           (/\ dispatch.exitType \in getExitTypes(m)
            /\ dispatch.exitType \in DOMAIN lastEnable
            /\ lastEnable[dispatch.exitType] = m)
           => DispatchedTo(m)

\* C3's case: two enabled modules claim the type, the message goes to the
\* one enabled last.
C3_Witness ==
    /\ dispatch.outcome = "queued"
    /\ dispatch.exitType = MBOX_TYPE
    /\ {"MBOX", "EXT"} \subseteq enabled
    /\ lastEnable[MBOX_TYPE] = "EXT"
    /\ DispatchedTo("EXT")

(***************************************************************************)
(* C5: queueMessage for an exit type with an enabled module enqueues       *)
(* exactly one entry into that module's queue: (exit_type, exit_info,      *)
(* None) with the decoded cleartext when the decoder succeeds,             *)
(* (exit_type, exit_info, tag) with the original message when the decoder  *)
(* returns None, (exit_type, exit_info, 'err') with the original message   *)
(* when the decoder raises MixError.                                       *)
(***************************************************************************)
C5_EnqueueByDecoderOutcome ==
    (/\ dispatch.outcome # "none"
     /\ dispatch.exitType \in DOMAIN typeToModule
     /\ typeToModule[dispatch.exitType] \in enabled)
    => LET m == typeToModule[dispatch.exitType]
           T == dispatch.exitType
           a == dispatch.address
           msg == dispatch.message
       IN  CASE msg.body = "fwd" ->
                    EnqueuedInto(m, <<T, a, NoTag>>, [id |-> msg.id, body |-> "clear"])
             [] msg.body = "enc" ->
                    EnqueuedInto(m, <<T, a, dispatch.tag>>, msg)
             [] OTHER ->
                    EnqueuedInto(m, <<T, a, ErrTag>>, msg)

\* C5's cases: a corrupt message stored with the tag 'err', and a forward
\* message stored decoded.
C5_Witness ==
    /\ dispatch.outcome = "queued"
    /\ dispatch.message.body = "bad"
    /\ \E e \in deliverDir[dispatch.to] : e.addr[3] = ErrTag /\ e.msg.body = "bad"

(***************************************************************************)
(* The server loop: what has happened to a packet.                         *)
(***************************************************************************)
AfterSync == {"mix", "mixing", "outgoing", "modules", "delivering", "next",
              "crashed"}

InPool(id) == \E e \in mixPool : e.obj.payload.id = id

InModuleQueue(id) == \E m \in ModuleNames : \E e \in deliverDir[m] : e.msg.id = id

Observed(id) == \E p \in processed : p.msg.id = id

\* The pool holds packet id as an EXIT decision for a type with a module.
PooledMappedExit(id) ==
    \E e \in mixPool :
        /\ e.obj.payload.id = id
        /\ e.obj.tp = "EXIT"
        /\ e.obj.rt \in DOMAIN typeToModule

\* C1: in every iteration of run(), syncLogs() has completed before mix()
\* enqueues a message of the batch and before the outgoing queue or the
\* module manager is flushed: from the mix to the end of the iteration no
\* processed packet is left unsynced, and every packet mix() routed had been
\* synced after it was processed.
C1_SyncBeforeRouting ==
    /\ pc \in AfterSync => unsynced = {}
    /\ \A r \in routed : r.synced

\* C1 witness: mix() has routed a processed packet and the iteration has
\* come to the flush of the module queues.
C1_Witness == pc = "modules" /\ \E r \in routed : r.synced

C6_PaddingLeavesQueueEmpty ==
    /\ \A e \in mixPool : e.obj.tp \in {"QUEUE", "EXIT"}
    /\ pc # "incoming" /\ DQ_ready(incomingQueue) = {}
           => \A e \in incomingQueue : e.msg.k # "PAD"

\* C7 as stated: the first time processMessage raises for an entry that has
\* not failed before, the entry stays queued for another attempt.
C7_FirstExceptionRetried ==
    [][\A id \in PacketIds :
           /\ excCount[id] = 0
           /\ excCount'[id] = 1
           /\ \E m \in ModuleNames : \E e \in deliverDir[m] :
                  e.msg.id = id /\ e.retries = 0
           => \E m \in ModuleNames : \E e \in deliverDir'[m] : e.msg.id = id]_vars

\* C7 amended: an exception out of processMessage is a non-retriable failure
\* the first time it happens: the entry is dropped from the module's queue,
\* so processMessage raises at most once for it.
C7_ExceptionDropsEntry ==
    \A id \in PacketIds :
        excCount[id] >= 1 => excCount[id] = 1 /\ ~InModuleQueue(id)

\* C7 witness: processMessage has raised for an entry.
C7_Witness == \E id \in PacketIds : excCount[id] = 1 /\ Observed(id)

\* C8: when queueing a message of the batch raises inside mix(), the error
\* does not leave mix(), and the message is discarded from the pool.
C8_RoutingErrorContained ==
    \A id \in faulted : pc # "crashed" /\ ~InPool(id)

\* C9: at no iteration of the loop after a rotation point does the server
\* process packets with the previous keyset: whenever the network is
\* serviced, the packet handler and the TLS context are those of the keyset
\* whose interval holds the clock.
C9_HandlerFollowsLiveKey ==
    pc = "net" =>
        \A i \in 1 .. Len(keyIntervals) :
            keyIntervals[i][1] <= now /\ now < keyIntervals[i][2]
                => /\ serverKeys.packetHandler = keyIntervals[i][3]
                   /\ serverKeys.tlsContext = keyIntervals[i][3]

(***************************************************************************)
(* C10: for every key schedule and every time t, _getLiveKey(t) returns    *)
(* the keyset with the largest valid_after <= t, also when t is exactly a  *)
(* valid_after.                                                            *)
(***************************************************************************)
C10_LargestValidAfter ==
    (lookup # NoLookup
        /\ \E e \in {keyIntervals[i] : i \in DOMAIN keyIntervals} :
               e[1] <= lookup.when)
    => /\ lookup.ret # NoKey
       /\ lookup.ret[1] <= lookup.when
       /\ \A i \in DOMAIN keyIntervals :
              keyIntervals[i][1] <= lookup.when
              => keyIntervals[i][1] <= lookup.ret[1]

\* C11: the keyset a current-time lookup hands out holds the time:
\* valid_after <= t < valid_until; and when no interval of the schedule
\* holds t, the lookup reports no live key.
C11_LiveKeyHoldsTime ==
    lookup # NoLookup /\ lookup.when = now =>
        IF \E k \in Range(keyIntervals) : k[1] <= now /\ now < k[2]
        THEN /\ lookup.ret # NoKey
             /\ lookup.ret[1] <= now
             /\ now < lookup.ret[2]
        ELSE lookup.ret = NoKey

\* What a search of the interval list gives for time t.
SearchKey(ki, t) == PyIndex(ki, bisect(ki, <<t, None, None>>) - 1)

\* C12: a current-time lookup with now < nextKeyRotation returns the cached
\* key and leaves the cached pair alone; one with now >= nextKeyRotation
\* searches the list and caches (key, key.valid_until); and a rescan of the
\* key directory (checkKeys, at the end of createKeys and removeDeadKeys)
\* resets the cache to what a search of the new list gives.
C12_CachedUntilRotation ==
    [][/\ GetLiveKeyNow /\ keyIntervals # <<>> =>
              IF now < nextKeyRotation
              THEN /\ lookup'.ret = liveKey
                   /\ liveKey' = liveKey
                   /\ nextKeyRotation' = nextKeyRotation
              ELSE /\ lookup'.ret = SearchKey(keyIntervals, now)
                   /\ liveKey' = lookup'.ret
                   /\ nextKeyRotation' = lookup'.ret[2]
       /\ (\E num \in 1 .. MaxNew : CreateKeys(num)) \/ RemoveDeadKeys =>
              IF keyIntervals' = <<>>
              THEN liveKey' = NoKey /\ nextKeyRotation' = 0
              ELSE /\ liveKey' = SearchKey(keyIntervals', now)
                   /\ nextKeyRotation' = liveKey'[2]]_vars

\* C12 witness: a current-time lookup has returned the cached key before
\* its rotation time, where a search of the list would have given another.
C12_Witness ==
    /\ lookup # NoLookup
    /\ lookup.when = now
    /\ now < nextKeyRotation
    /\ lookup.ret = liveKey
    /\ lookup.ret # SearchKey(keyIntervals, now)

\* C13: createKeys(n) generates n keysets under unused names with
\* consecutive intervals [s_i, s_i + PublicKeyLifetime): s_0 is the previous
\* midnight of the last existing key's valid_until + 60 s, or of now + 60 s
\* when there is no key, and s_(i+1) = s_i + PublicKeyLifetime; the interval
\* list is rescanned afterwards and holds the old and the new keysets.
C13_ConsecutiveNewKeys ==
    keyOp.op = "createKeys" =>
        LET new == keyOp.new
            before == keyOp.before
            s0 == previousMidnight(
                      IF before # <<>> THEN before[Len(before)][2] + 60
                      ELSE keyOp.clock + 60)
        IN  /\ Len(new) = keyOp.num
            /\ new[1][1] = s0
            /\ \A i \in 1 .. Len(new) :
                   new[i][2] = new[i][1] + PublicKeyLifetime
            /\ \A i \in 1 .. Len(new) - 1 : new[i + 1][1] = new[i][2]
            /\ \A i, j \in 1 .. Len(new) : i # j => new[i][3] # new[j][3]
            /\ \A i \in 1 .. Len(new) :
                   \A k \in Range(before) : k[3] # new[i][3]
            /\ keyStore = Range(before) \cup Range(new)
            /\ keyIntervals = sortTuples(keyStore)

\* C13 witness: createKeys(2) after a key that ends at noon: the first new
\* key starts at the midnight before, the second where the first ends.
C13_Witness ==
    /\ keyOp.op = "createKeys"
    /\ keyOp.num = 2
    /\ keyOp.before # <<>>
    /\ previousMidnight(keyOp.before[Len(keyOp.before)][2] + 60)
           # keyOp.before[Len(keyOp.before)][2]
    /\ Len(keyIntervals) = Len(keyOp.before) + 2

\* C14: after removeDeadKeys the keysets left on disk and in the interval
\* list are exactly those that had valid_until >= now - keySloppiness, for
\* any schedule, also with overlapping or nested intervals.
C14_ExactlyDeadKeysRemoved ==
    keyOp.op = "removeDeadKeys" =>
        /\ keyStore = {k \in keyOp.before : k[2] >= keyOp.cutoff}
        /\ keyIntervals = sortTuples(keyStore)

\* C14 witness: removeDeadKeys has removed an expired keyset nested in the
\* interval of a keyset that stays, the one its log line names.
C14_Witness ==
    /\ keyOp.op = "removeDeadKeys"
    /\ keyStore # {}
    /\ keyOp.before # keyStore
    /\ keyOp.logged \subseteq keyStore

\* C15: the remove-keys command purges only expired keysets: every keyset
\* whose valid_until is not before the current time less the key sloppiness
\* is still on disk after it has run.
C15_RemoveKeysKeepsLiveKeys ==
    keyOp.op = "removeKeys" =>
        \A k \in keyOp.before : k[2] >= now - keySloppiness => k \in keyStore

\* C16: after remove-keys --remove-identity neither the identity key nor
\* the DH parameters file work/tls/dhparam exists.
C16_IdentityAndDHRemoved ==
    keyOp.op = "removeKeys" /\ keyOp.removeIdentity =>
        "identity.key" \notin files /\ "dhparam" \notin files

\* C17: when the packet handler raises CryptoError, ParseError or
\* ContentError for an incoming entry, the entry is removed from the
\* incoming queue (failed, not rescheduled), nothing is put into the pool
\* for it, and the drain goes on with the entries that are left; after a
\* drain no rejected packet is left handed out or waiting for a retry.
C17_RejectedPacketDropped ==
    /\ [][\A h \in Handles :
              DeliverIncoming(h) /\ Entry(incomingQueue, h).msg.k = "BAD"
                  => /\ \A e \in incomingQueue' : e.h # h
                     /\ mixPool' = mixPool
                     /\ unsynced' = unsynced
                     /\ batch' = batch \ {h}
                     /\ batch' # {} => pc' = "incoming"]_vars
    /\ [](pc # "incoming" =>
              \A e \in incomingQueue : e.msg.k = "BAD" => e.st = "ready")

\* C17 witness: of two packets handed out by the first drain, the one
\* processed first has been rejected and dropped, nothing is in the pool,
\* and the other is still to be processed.
C17_Witness ==
    /\ pc = "incoming"
    /\ now = StartTime + Tick
    /\ arrived = 2
    /\ mixPool = {}
    /\ Cardinality(incomingQueue) = 1
    /\ \E e \in incomingQueue : e.h \in batch /\ e.msg.k = "FWD"

\* C18: for each entry of a batch drained from a module's queue the
\* module's processMessage is called and one outcome is reported for its
\* handle: DELIVER_OK -> deliverySucceeded, DELIVER_FAIL_RETRY ->
\* deliveryFailed(retriable), DELIVER_FAIL_NORETRY -> deliveryFailed(not
\* retriable); the entry leaves the batch, the other entries are not touched
\* and the batch goes on; after the flush no entry is left handed out
\* without an outcome.
C18_OneOutcomePerEntry ==
    /\ [][\A m \in ModuleNames, h \in Handles, result \in DeliveryResults :
              DeliverModule(m, h, result) =>
                  /\ \E p \in processed' :
                         /\ p.mod = m
                         /\ p.msg = Entry(deliverDir[m], h).msg
                         /\ p.addr = Entry(deliverDir[m], h).addr
                  /\ result = DELIVER_OK =>
                         deliverDir'[m] = DQ_deliverySucceeded(deliverDir[m], h)
                  /\ result = DELIVER_FAIL_RETRY =>
                         deliverDir'[m] = DQ_deliveryFailed(deliverDir[m], h, TRUE)
                  /\ result = DELIVER_FAIL_NORETRY =>
                         deliverDir'[m] = DQ_deliveryFailed(deliverDir[m], h, FALSE)
                  /\ \A e \in deliverDir[m] : e.h # h => e \in deliverDir'[m]
                  /\ \A o \in ModuleNames \ {m} : deliverDir'[o] = deliverDir[o]
                  /\ batch' = batch \ {<<m, h>>}
                  /\ batch' # {} => pc' = "delivering"]_vars
    /\ [](pc # "delivering" =>
              \A m \in ModuleNames : \A e \in deliverDir[m] : e.st # "pending")

\* C18 witness: in a batch of two entries the first has failed with
\* DELIVER_FAIL_RETRY and waits for its retry, the second is still to come.
C18_Witness ==
    /\ pc = "delivering"
    /\ batch # {}
    /\ \E e \in deliverDir["MBOX"] : e.st = "waiting" /\ e.retries = 1
    /\ \E e \in deliverDir["MBOX"] : e.st = "pending" /\ <<"MBOX", e.h>> \in batch

\* C19: queueMessage for an exit type that no enabled module claims logs
\* and drops the message: no module's queue gets an entry, no module's
\* processMessage is called, and typeToModule, queues and enabled are as
\* they were.
C19_UnknownTypeDropped ==
    [][(MMQueueMessage
           /\ \A m \in enabled : dispatch'.exitType \notin getExitTypes(m))
       => /\ dispatch'.outcome = "dropped"
          /\ mmLog' = {<<"error", dispatch'.exitType>>}
          /\ deliverDir' = deliverDir
          /\ processed' = processed
          /\ typeToModule' = typeToModule
          /\ queues' = queues
          /\ enabled' = enabled]_vars

\* C19 witness: with MBOX enabled, a message of the SMTP exit type has been
\* dropped.
C19_Witness ==
    /\ dispatch.outcome = "dropped"
    /\ dispatch.exitType = SMTP_TYPE
    /\ <<"error", SMTP_TYPE>> \in mmLog
    /\ "MBOX" \in enabled
    /\ \A m \in ModuleNames : deliverDir[m] = {}

\* C20: when a module is enabled for an exit type that a module of another
\* name holds, the type maps to the module enabled last and a warning is
\* logged for the type; enabling a module for a type it holds itself, or
\* that no module holds, logs no warning.  So with MBOX and EXT both
\* enabled, the MBOX type maps to the one of the two enabled last.
C20_LastEnableWinsWithWarning ==
    /\ [][\A m \in ModuleNames :
              EnableModule(m) =>
                  \A t \in getExitTypes(m) :
                      /\ typeToModule'[t] = m
                      /\ <<"warn", t>> \in mmLog' <=>
                             (t \in DOMAIN typeToModule /\ typeToModule[t] # m)]_vars
    /\ []({"MBOX", "EXT"} \subseteq enabled =>
              /\ MBOX_TYPE \in DOMAIN typeToModule
              /\ typeToModule[MBOX_TYPE] = lastEnable[MBOX_TYPE])

\* C20 witness: EXT has been enabled while MBOX held the MBOX type: the
\* type maps to EXT and the warning is in the log.
C20_Witness ==
    /\ {"MBOX", "EXT"} \subseteq enabled
    /\ typeToModule[MBOX_TYPE] = "EXT"
    /\ mmLog = {<<"warn", MBOX_TYPE>>}

\* C21: registerModule of a module whose configuration syntax defines a
\* section that a module registered before defines raises ConfigError, and
\* leaves the syntax and the name map as they were; a module whose sections
\* are all new is registered without an error.
C21_SectionCollisionRaises ==
    [][\A m \in ExtModules \cup DupModules :
           RegisterModule(m) =>
               IF getConfigSyntax(m) \cap syntax # {}
               THEN /\ <<"ConfigError", m>> \in mmLog'
                    /\ syntax' = syntax
                    /\ nameToModule' = nameToModule
               ELSE /\ mmLog' = {}
                    /\ syntax' = syntax \cup getConfigSyntax(m)
                    /\ nameToModule' = nameToModule \cup {m}]_vars

\* C21 witness: DUP, which defines the section of the MBOX module, has been
\* registered after EXT and has raised ConfigError.
C21_Witness ==
    /\ mmLog = {<<"ConfigError", "DUP">>}
    /\ "EXT" \in nameToModule
    /\ "DUP" \notin nameToModule
    /\ "Delivery/DUP" \notin syntax

\* The places <<i, j>> of the calls where handle h is the j-th handle of the
\* i-th call.
PlacesOf(cs, h) ==
    {p \in (DOMAIN cs) \X (1 .. MaxBatch) :
        p[2] \in DOMAIN cs[p[1]].handles /\ cs[p[1]].handles[p[2]] = h}

\* The place of handle h in the list.
IndexOf(list, h) == CHOOSE k \in DOMAIN list : list[k].h = h

\* C22: OutgoingQueue._deliverMessages makes exactly one sendMessages call
\* for each distinct endpoint of the drained list; every drained entry is in
\* exactly one call, the one for its own endpoint; the i-th message of a
\* call is the message of its i-th handle; and the entries of a call are in
\* the order they had in the drained list.
C22_OneCallPerEndpoint ==
    [][SendReadyOutgoing =>
           LET list == msgList'
               cs == calls'
               addrOf(c) == <<c.ip, c.port, c.keyinfo>>
           IN  /\ Range(list) =
                      {[h |-> e.h, addr |-> e.addr, msg |-> e.msg,
                        retries |-> e.retries] :
                          e \in {f \in outgoingQueue : f.st = "ready"}}
               /\ Len(cs) = Cardinality({e.addr : e \in Range(list)})
               /\ \A i, j \in DOMAIN cs : addrOf(cs[i]) = addrOf(cs[j]) => i = j
               /\ \A k \in DOMAIN list :
                      /\ Cardinality(PlacesOf(cs, list[k].h)) = 1
                      /\ \A p \in PlacesOf(cs, list[k].h) :
                             /\ addrOf(cs[p[1]]) = list[k].addr
                             /\ cs[p[1]].messages[p[2]] = list[k].msg
               /\ \A i \in DOMAIN cs :
                      /\ Len(cs[i].messages) = Len(cs[i].handles)
                      /\ cs[i].handles # <<>>
                      /\ \A j \in DOMAIN cs[i].handles :
                             \E k \in DOMAIN list : list[k].h = cs[i].handles[j]
                      /\ \A j1, j2 \in DOMAIN cs[i].handles :
                             j1 < j2 => IndexOf(list, cs[i].handles[j1])
                                            < IndexOf(list, cs[i].handles[j2])]_vars

\* C22 witness: two entries for one endpoint drained in another order than
\* that of their handles: one call, its messages in the order of the list.
C22_Witness ==
    /\ Len(msgList) = 2
    /\ msgList[1].h > msgList[2].h
    /\ msgList[1].addr = msgList[2].addr
    /\ Len(calls) = 1
    /\ calls[1].handles = <<msgList[1].h, msgList[2].h>>
    /\ calls[1].messages = <<msgList[1].msg, msgList[2].msg>>

\* The handles of the entries a queue holds.
HandlesOf(q) == {e.h : e \in q}

\* C23: handing the ready entries of the outgoing queue to the transport
\* removes none of them; onMessageSent(h) marks h succeeded, which removes
\* it; onMessageUndeliverable(h, retriable) is deliveryFailed(h, retriable)
\* with the flag as the transport gave it; and an entry leaves the queue
\* only by one of the two reports for its handle, by onMessageUndeliverable
\* only when the failure is final or the retries are used up.
C23_RemovedOnlyWhenReported ==
    [][/\ SendReadyOutgoing =>
              /\ HandlesOf(outgoingQueue') = HandlesOf(outgoingQueue)
              /\ \A e \in outgoingQueue' : e.st # "ready"
       /\ \A h \in 1 .. MaxBatch :
              /\ OnMessageSent(h) =>
                     outgoingQueue' = DQ_deliverySucceeded(outgoingQueue, h)
              /\ \A retriable \in BOOLEAN :
                     OnMessageUndeliverable(h, retriable) =>
                         outgoingQueue' =
                             DQ_deliveryFailed(outgoingQueue, h, retriable)
              /\ (h \in HandlesOf(outgoingQueue) \ HandlesOf(outgoingQueue')) =>
                     \/ OnMessageSent(h)
                     \/ /\ OnMessageUndeliverable(h, FALSE)
                     \/ /\ OnMessageUndeliverable(h, TRUE)
                        /\ Entry(outgoingQueue, h).retries >= MaxRetries]_vars

\* C23 witness: of two entries handed to the transport, one has been
\* reported sent and is gone, the other has been reported undeliverable with
\* the retriable flag and waits for its next attempt.
C23_Witness ==
    /\ Len(msgList) = 2
    /\ Cardinality(outgoingQueue) = 1
    /\ \E e \in outgoingQueue :
           /\ e.st = "waiting"
           /\ e.retries = 1
           /\ e.h \in {msgList[1].h, msgList[2].h}

\* The 6-bit value of a base64 character.
b64value(c) ==
    CASE c >= 65 /\ c <= 90 -> c - 65
      [] c >= 97 /\ c <= 122 -> c - 71
      [] c >= 48 /\ c <= 57 -> c + 4
      [] c = 43 -> 62
      [] OTHER -> 63

\* The bytes that a list of 6-bit values stands for.
RECURSIVE sextetsToBytes(_)
sextetsToBytes(v) ==
    CASE Len(v) >= 4 ->
             LET n == v[1] * 262144 + v[2] * 4096 + v[3] * 64 + v[4]
             IN  <<n \div 65536, (n \div 256) % 256, n % 256>>
                     \o sextetsToBytes(SubSeq(v, 5, Len(v)))
      [] Len(v) = 3 ->
             LET n == v[1] * 4096 + v[2] * 64 + v[3]
             IN  <<n \div 1024, (n \div 4) % 256>>
      [] Len(v) = 2 -> <<(v[1] * 64 + v[2]) \div 16>>
      [] OTHER -> <<>>

Base64Alphabet == (65 .. 90) \cup (97 .. 122) \cup (48 .. 57) \cup {43, 47}

\* s is base64 text (alphabet, padding and newlines) that decodes to bytes.
IsBase64Of(s, bytes) ==
    /\ \A i \in DOMAIN s : s[i] \in Base64Alphabet \cup {61, 10}
    /\ LET chars == SelectSeq(s, LAMBDA c : c \in Base64Alphabet)
       IN  sextetsToBytes([i \in DOMAIN chars |-> b64value(chars[i])]) = bytes

HasNonPrinting(s) ==
    \E i \in DOMAIN s : (0 <= s[i] /\ s[i] <= 6) \/ (14 <= s[i] /\ s[i] <= 31)

\* C24: the escaper, producing text, gives no body when the tag is 'err';
\* ENC with the payload and the tag in base64 when there is another tag;
\* without a tag BIN with the payload in base64 iff the payload holds a byte
\* in 0x00-0x06 or 0x0E-0x1F, and TXT with the payload verbatim iff it holds
\* none.  isPrintable(s) is true exactly when s holds no such byte.
C24_EscapeClassifies ==
    /\ isPrintable(escaped.message) <=> ~HasNonPrinting(escaped.message)
    /\ escaped.op = "_escapeMessage" /\ escaped.text =>
           LET r == escaped.ret
               m == escaped.message
               tag == escaped.tag
           IN  CASE tag = PyStr(ErrString) -> r = PyNone
                 [] tag # PyNone ->
                        /\ r # PyNone
                        /\ r.code = "ENC"
                        /\ IsBase64Of(r.message, m)
                        /\ r.tag # PyNone
                        /\ IsBase64Of(r.tag.v, tag.v)
                 [] OTHER ->
                        /\ r # PyNone
                        /\ r.tag = PyNone
                        /\ r.code \in {"BIN", "TXT"}
                        /\ r.code = "BIN" <=> HasNonPrinting(m)
                        /\ r.code = "BIN" => IsBase64Of(r.message, m)
                        /\ r.code = "TXT" => r.message = m

\* C24 witness: a payload with the bytes 0x0D (printing) and 0x0E (not) and
\* no tag has come out as BIN, in base64 and not verbatim.
C24_Witness ==
    /\ escaped.op = "_escapeMessage"
    /\ escaped.text
    /\ escaped.tag = PyNone
    /\ escaped.message = <<13, 14>>
    /\ escaped.ret.code = "BIN"
    /\ escaped.ret.message = <<68, 81, 52, 61, 10>>

\* The calls of the list that are not the answers of processMessage.
OutsideCalls == SelectSeq(calls, LAMBDA c : c.op # "processMessage")

\* C25: an MBOX delivery whose exit info names a user the address map does
\* not have returns DELIVER_FAIL_NORETRY and the SMTP sender is not called
\* for it; the queue reports a failure that is not retriable, so the entry
\* is gone from the queue after the batch and is not attempted again.
C25_UnknownUserFailsForGood ==
    [][SendReadyModule("MBOX") =>
           \A i \in DOMAIN msgList' :
               msgList'[i].addr[2] \notin DOMAIN MBoxAddresses =>
                   /\ \E k \in DOMAIN calls' :
                          calls'[k] = [op |-> "processMessage",
                                       h |-> msgList'[i].h,
                                       result |-> DELIVER_FAIL_NORETRY]
                   /\ \A k \in DOMAIN calls' :
                          calls'[k].op = "sendSMTPMessage" =>
                              calls'[k].msg # msgList'[i].msg
                   /\ \A e \in deliverDir'["MBOX"] : e.h # msgList'[i].h]_vars

\* C25 witness: of two MBOX entries delivered in one batch, the one for the
\* unknown user is gone without a call of the SMTP sender, the one for the
\* known user has been mailed and waits for a retry.
C25_Witness ==
    /\ Len(msgList) = 2
    /\ calls # <<>>
    /\ calls[Len(calls)].op = "processMessage"
    /\ msgList[1].addr = <<MBOX_TYPE, "mallory", NoTag>>
    /\ msgList[2].addr = <<MBOX_TYPE, "alice", NoTag>>
    /\ Len(OutsideCalls) = 1
    /\ OutsideCalls[1].op = "sendSMTPMessage"
    /\ OutsideCalls[1].msg = msgList[2].msg
    /\ HandlesOf(deliverDir["MBOX"]) = {msgList[2].h}

\* The places of the calls where processMessage answers for handle h.
AnswersFor(cs, h) ==
    {k \in DOMAIN cs : cs[k].op = "processMessage" /\ cs[k].h = h}

\* C28: the Mixmaster module's processMessage returns DELIVER_OK whenever it
\* has run the command, whatever the exit code, so the entry is removed; and
\* its queue's _deliverMessages calls flushMixmasterPool once for the batch,
\* as its last call, after processMessage has answered once for every
\* message of the list.
C28_OkWhateverCodeThenOneFlush ==
    [][SendReadyModule("SMTP_MIX2") =>
           LET cs == calls'
               list == msgList'
           IN  /\ cs # <<>>
               /\ cs[Len(cs)].op = "flushMixmasterPool"
               /\ \A k \in 1 .. Len(cs) - 1 : cs[k].op # "flushMixmasterPool"
               /\ \A i \in DOMAIN list :
                      Cardinality(AnswersFor(cs, list[i].h)) = 1
               /\ \A k \in DOMAIN cs :
                      cs[k].op = "spawnl" =>
                          /\ cs[k + 1].op = "processMessage"
                          /\ cs[k + 1].result = DELIVER_OK
               /\ \A i \in DOMAIN list :
                      list[i].addr[2] # InvalidMailbox =>
                          /\ \E k \in DOMAIN cs :
                                 /\ cs[k].op = "spawnl"
                                 /\ cs[k].msg = list[i].msg
                                 /\ cs[k + 1].h = list[i].h
                          /\ \A e \in deliverDir'["SMTP_MIX2"] :
                                 e.h # list[i].h]_vars

\* C28 witness: a batch of two messages, the command has ended with exit
\* code 1 for both, both are answered DELIVER_OK and removed, and the pool
\* is flushed once at the end.
C28_Witness ==
    /\ Len(msgList) = 2
    /\ Len(calls) = 5
    /\ calls[5].op = "flushMixmasterPool"
    /\ calls[1].op = "spawnl" /\ calls[1].code = 1
    /\ calls[2].op = "processMessage" /\ calls[2].result = DELIVER_OK
    /\ calls[3].op = "spawnl" /\ calls[3].code = 1
    /\ calls[4].op = "processMessage" /\ calls[4].result = DELIVER_OK
    /\ deliverDir["SMTP_MIX2"] = {}

\* What one turn of mix()'s loop does with the pool entry e: an EXIT goes
\* to the exit modules alone and a relay packet to the outgoing queue alone,
\* as one new entry under the endpoint, holding the packet.
RoutedOnce(e) ==
    IF e.obj.tp = "EXIT"
    THEN /\ outgoingQueue' = outgoingQueue
         /\ \/ /\ e.obj.rt \notin DOMAIN typeToModule
               /\ mmLog' = {<<"error", e.obj.rt>>}
               /\ deliverDir' = deliverDir /\ processed' = processed
            \/ /\ e.obj.rt \in DOMAIN typeToModule
               /\ \E m \in ModuleNames :
                     /\ m = typeToModule[e.obj.rt]
                     /\ \A n \in ModuleNames \ {m} : deliverDir'[n] = deliverDir[n]
                     /\ \/ /\ processed' = processed
                           /\ \E f \in deliverDir'[m] :
                                 /\ deliverDir'[m] = deliverDir[m] \cup {f}
                                 /\ f \notin deliverDir[m]
                                 /\ f.addr[1] = e.obj.rt
                                 /\ f.addr[2] = e.obj.ri
                                 /\ f.msg.id = e.obj.payload.id
                        \/ /\ deliverDir'[m] = deliverDir[m]
                           /\ \E f \in processed' :
                                 /\ processed' = processed \cup {f}
                                 /\ f.mod = m
                                 /\ f.addr[1] = e.obj.rt
                                 /\ f.addr[2] = e.obj.ri
                                 /\ f.msg.id = e.obj.payload.id
    ELSE /\ deliverDir' = deliverDir /\ processed' = processed
         /\ \E f \in outgoingQueue' :
               /\ outgoingQueue' = outgoingQueue \cup {f}
               /\ f \notin outgoingQueue
               /\ f.addr = e.obj.ri
               /\ f.msg = e.obj.payload

\* C26: every turn of mix()'s loop that does not raise takes one handle
\* that is still left of the batch getBatch returned, routes its message
\* once (an EXIT to the exit modules, anything else to the outgoing queue),
\* removes that entry and no other from the pool, and the loop ends when no
\* handle is left; outside the loop nothing is routed; when mix() has
\* returned no handle of the batch is in the pool.
C26_BatchRoutedOnceAndRemoved ==
    /\ [][pc = "mixing" /\ pc' # "crashed" =>
             \E h \in batch :
                 /\ h \in handles
                 /\ handles' = handles
                 /\ batch' = batch \ {h}
                 /\ mixPool' = mixPool \ {Entry(mixPool, h)}
                 /\ RoutedOnce(Entry(mixPool, h))
                 /\ (pc' = "outgoing") = (batch' = {})
                 /\ pc' \in {"outgoing", "mixing"}]_vars
    /\ [][pc # "mixing" => routed' = routed]_vars
    /\ [](pc = "mixing" =>
             /\ batch \subseteq handles
             /\ batch = handles \cap HandlesOf(mixPool))
    /\ [](pc = "outgoing" => handles \cap HandlesOf(mixPool) = {})

\* mix() has just returned from a batch of two, an EXIT and a relay packet:
\* both are routed, the relay packet is in the outgoing queue, and neither
\* is in the pool.
C26_Witness ==
    /\ pc = "outgoing"
    /\ Cardinality(handles) = 2
    /\ handles \cap HandlesOf(mixPool) = {}
    /\ \E r1, r2 \in routed : r1.tp = "EXIT" /\ r2.tp # "EXIT"
    /\ outgoingQueue # {}


\* C27: when the clean cadence fires, cleanQueue is run on the incoming
\* queue, the pool's queue, the outgoing queue and every delivery queue the
\* ModuleManager holds, nextShred is advanced by 6000 s and the loop goes on
\* to its next pass.
C27_CleanStepCompletes ==
    [][pc = "shred" =>
          /\ Range(cleaned') = {"incoming", "mix", "outgoing"} \cup queues
          /\ nextShred' = now + ShredInterval
          /\ pc' = "net"]_vars


\* The keysets of a key directory that have expired by the cutoff.
ExpiredAt(store, cutoff) == {k \in store : k[2] < cutoff}

\* The expired keysets are the first ones of the sorted interval list.
ExpiredIsPrefix(store, cutoff) ==
    \A i \in 1 .. Cardinality(ExpiredAt(store, cutoff)) :
        sortTuples(store)[i] \in ExpiredAt(store, cutoff)

\* C29: in removeDeadKeys some log line names a keyset other than the one
\* whose directory is deleted in the same turn exactly when the expired
\* keysets are not a prefix of the sorted interval list, and every
\* directory deleted is that of an expired keyset.
C29_LogDriftsIffNotPrefix ==
    keyOp.op = "removeDeadKeys" =>
        /\ (\E p \in keyOp.pairs : p[1] # p[2][3])
               <=> ~ExpiredIsPrefix(keyOp.before, keyOp.cutoff)
        /\ keyOp.before \ keyStore \subseteq ExpiredAt(keyOp.before, keyOp.cutoff)
        /\ {p[1] : p \in keyOp.pairs}
               = {k[3] : k \in ExpiredAt(keyOp.before, keyOp.cutoff)}

\* removeDeadKeys on an expired keyset nested in the interval of a keyset
\* that is still valid: the log names the valid keyset, which stays, and
\* the directory of the expired one is gone.
C29_Witness ==
    /\ keyOp.op = "removeDeadKeys"
    /\ \E p \in keyOp.pairs :
           /\ p[1] # p[2][3]
           /\ p[2] \in keyStore
           /\ p[2][2] >= keyOp.cutoff
           /\ \E k \in keyOp.before \ keyStore :
                 k[3] = p[1] /\ p[2][1] < k[1] /\ k[2] < p[2][2]


\* C30: whatever enableModule and disableModule calls have been made, every
\* module an exit type maps to is enabled and has a delivery queue under
\* its name, and no queueMessage call has failed to find the queue of the
\* module it dispatches to.
C30_MappedModuleHasQueue ==
    /\ \A t \in DOMAIN typeToModule :
           typeToModule[t] \in enabled /\ typeToModule[t] \in queues
    /\ dispatch.outcome # "KeyError"

\* The MBOX exit type maps to EXT while MBOX is not enabled and has no
\* queue: a message of that type has been stored in EXT's queue.
C30_Witness ==
    /\ dispatch.outcome = "queued"
    /\ dispatch.exitType = MBOX_TYPE
    /\ dispatch.to = "EXT"
    /\ "MBOX" \notin enabled
    /\ "MBOX" \notin queues
    /\ deliverDir["EXT"] # {}


\* An exit type some enabled module's stored queue takes.
HasExitQueue(rt) ==
    /\ rt \in DOMAIN typeToModule
    /\ createDeliveryQueue(typeToModule[rt]) # "ImmediateDeliveryQueue"

\* The packets the server holds for a destination it has: in the incoming
\* queue the relay packets and the exit packets of a type with a queue, in
\* the pool their routing decisions, and whatever the outgoing queue or a
\* module's queue holds.
IncomingIds ==
    {e.msg.id : e \in {f \in incomingQueue :
        f.msg.k = "FWD" \/ (f.msg.k = "EXIT" /\ HasExitQueue(f.msg.rt))}}

PoolIds ==
    {e.obj.payload.id : e \in {f \in mixPool :
        f.obj.tp = "QUEUE" \/ HasExitQueue(f.obj.rt)}}

OutgoingIds == {e.msg.id : e \in outgoingQueue}

ModuleIds == UNION {{e.msg.id : e \in deliverDir[m]} : m \in ModuleNames}

HeldIds == IncomingIds \cup PoolIds \cup OutgoingIds \cup ModuleIds

\* The transport or a module is reporting the outcome of the packet.
OutcomeDue(id) ==
    \/ /\ pc = "net"
       /\ \E e \in outgoingQueue : e.msg.id = id /\ e.st = "pending"
    \/ /\ pc = "delivering"
       /\ \E m \in ModuleNames :
              \E e \in deliverDir[m] : e.msg.id = id /\ e.st = "pending"

\* C31: between mixPool.queueObject and deliverySucceeded the packet is in
\* the incoming queue and its decision in the pool; between the enqueue of
\* mix() and removeMessage the decision is in the pool and the message in
\* the outgoing queue or the module's queue; and no step takes a held packet
\* out of all four stages but the report of its outcome by the transport
\* or by its module.
C31_WrittenBeforeRemoved ==
    /\ [](calls # <<>> =>
            IF calls[1].op = "queueObject"
            THEN \E e \in incomingQueue :
                    /\ e.h = calls[1].h
                    /\ \E f \in mixPool : f.obj.payload.id = e.msg.id
            ELSE \E f \in mixPool :
                    /\ f.h = calls[1].h
                    /\ (f.obj.tp = "QUEUE" \/ HasExitQueue(f.obj.rt)) =>
                           f.obj.payload.id \in OutgoingIds \cup ModuleIds)
    /\ [][\A id \in HeldIds : id \in HeldIds' \/ OutcomeDue(id)]_vars

\* A turn of IncomingQueue._deliverMessages is under way on an exit packet
\* for MBOX: the pool has the decision and the incoming queue still has the
\* packet.
C31_Witness ==
    /\ pc = "incoming"
    /\ calls # <<>>
    /\ \E e \in incomingQueue :
           /\ e.h = calls[1].h
           /\ e.msg.k = "EXIT"
           /\ e.msg.id \in IncomingIds \cap PoolIds


\* C32: a module whose registerModule call raised ConfigError (it is not in
\* nameToModule) is not in the list of modules either, defines no section
\* of the syntax, and is never enabled by a later configure.
C32_RejectedModuleLeftOut ==
    \A m \in ModuleNames :
        m \notin nameToModule =>
            /\ m \notin Range(modules)
            /\ m \notin enabled
            /\ ("Delivery/" \o m) \notin syntax


\* C33: after the server has started on an empty key directory, the keyset
\* the packet handler and the TLS context are built from is valid at the
\* time of the start: valid_after <= now < valid_until.
C33_BootstrapKeyIsLive ==
    keyOp.op = "bootstrap" =>
        \E k \in keyStore :
            /\ k[3] = serverKeys.packetHandler
            /\ k[3] = serverKeys.tlsContext
            /\ k[1] <= now
            /\ now < k[2]


\* C34: every name a createKeys call gives is an integer >= 1, is the name
\* of no keyset the directory held before the call and of no other keyset
\* of the call, whatever numbers the directory held; every keyset it held
\* is still there after the call.
C34_NewNamesAreFresh ==
    keyOp.op = "createKeys" =>
        /\ Len(keyOp.new) = keyOp.num
        /\ \A i \in DOMAIN keyOp.new :
               /\ keyOp.new[i][3] >= 1
               /\ \A k \in Range(keyOp.before) : k[3] # keyOp.new[i][3]
               /\ \A j \in DOMAIN keyOp.new :
                      i # j => keyOp.new[i][3] # keyOp.new[j][3]
        /\ Range(keyOp.before) \subseteq keyStore
        /\ Cardinality({k[3] : k \in keyStore})
               = Len(keyOp.before) + keyOp.num

\* createKeys(2) on a directory that held the keysets 3 and 5, so with a
\* hole and without keyset 1: the new keysets are 2 and 1.
C34_Witness ==
    /\ keyOp.op = "createKeys"
    /\ {k[3] : k \in Range(keyOp.before)} = {3, 5}
    /\ keyOp.num = 2
    /\ <<keyOp.new[1][3], keyOp.new[2][3]>> = <<2, 1>>

=============================================================================
